---------------------------- MODULE Spec2Model ----------------------------
(***************************************************************************)
(* Model of bionic/linker/linker_phdr.cpp: the ELF segment loader          *)
(* (ElfReader), the fixed-layout registry (linker_maps_addr_t), the        *)
(* seccomp filter built by init_seccomp, and the GNU relro helpers.        *)
(*                                                                         *)
(* Machine words.  TLC integers are 32-bit signed, the filter works on     *)
(* unsigned 32-bit words, so a word is the pair <<high 16 bits, low 16     *)
(* bits>> and a 64-bit value is the pair <<high word, low word>>.  Word    *)
(* comparisons are the unsigned comparisons of the BPF machine.            *)
(***************************************************************************)
EXTENDS Integers, Sequences, FiniteSets, TLC

VARIABLES
  lp64,        \* TRUE: the __LP64__ build, FALSE: the 32-bit build
  registry,    \* linker_maps_addr_t at LINKER_MAPS_ADDR
  seccomp,     \* the filter programs attached to the process, oldest first
  sd,          \* struct seccomp_data of the syscall the process makes
  verdict,     \* what the attached filters returned for it, "NONE" before
  pc,          \* the stage of ElfReader::Load the loader thread is at
  image,       \* the file and the extinfo the current ElfReader was given
  reader,      \* the fields of the current ElfReader
  klog,        \* the kernel calls of the current Load, in order
  dl_err,      \* the last DL_ERR message and its arguments
  guest_writes,\* stores to the guest_libc_addr/size fields so far
  loads,       \* ElfReader objects constructed so far
  mem,         \* relro pages of the process: page number -> contents, backing
  relro_fd,    \* the relro file: a sequence of page contents
  relro_in,    \* the table, bias and memory phdr_table_map_gnu_relro was given
  relro_ret,   \* its return value
  relro_w,     \* the process that serializes its relro pages to the file
  pprot,       \* the protection of the pages of a loaded image
  prot_in,     \* its table and bias, and the last protection call made on it
  prot_ret     \* the return value of that call

vars == <<lp64, registry, seccomp, sd, verdict, pc, image, reader, klog,
          dl_err, guest_writes, loads, mem, relro_fd, relro_in, relro_ret,
          relro_w, pprot, prot_in, prot_ret>>

filter_vars == <<lp64, registry, seccomp, sd, verdict>>

loader_vars == <<pc, image, reader, klog, dl_err, guest_writes, loads>>

relro_vars == <<mem, relro_fd, relro_in, relro_ret, relro_w>>

prot_vars == <<pprot, prot_in, prot_ret>>

---------------------------------------------------------------------------
\* 32-bit words and 64-bit values

W(n) == <<n \div 65536, n % 65536>>

WGE(a, b) == a[1] > b[1] \/ (a[1] = b[1] /\ a[2] >= b[2])

WGT(a, b) == a[1] > b[1] \/ (a[1] = b[1] /\ a[2] > b[2])

\* (uint32_t)(v >> 32) and (uint32_t)(v & 0xFFFFFFFF) of a 64-bit value
Hi32(v) == v[1]

Lo32(v) == v[2]

U64GE(a, b) == WGT(a[1], b[1]) \/ (a[1] = b[1] /\ WGE(a[2], b[2]))

U64LT(a, b) == ~U64GE(a, b)

---------------------------------------------------------------------------
\* The registry accessors (the macros over LINKER_MAPS_ADDR)

PRELINKER_ADDR(reg) == reg.prelinker_addr

LINKER_MAPS_LAST_ADDR(reg) == reg.linker_maps_last_addr

GUEST_LIBC_ADDR(reg) == reg.guest_libc_addr

GUEST_LIBC_SIZE(reg) == reg.guest_libc_size

---------------------------------------------------------------------------
\* The audit architecture tokens

\* EM_ARM | __AUDIT_ARCH_LE = 0x40000028
AUDIT_ARCH_ARM == <<16384, 40>>

\* EM_AARCH64 | __AUDIT_ARCH_64BIT | __AUDIT_ARCH_LE = 0xC00000B7
AUDIT_ARCH_AARCH64 == <<49152, 183>>

\* Syscall numbers of <asm/unistd.h>, ARM EABI
NR_arm ==
  [ open |-> 5, execve |-> 11, ptrace |-> 26, access |-> 33, ioctl |-> 54,
    gettimeofday |-> 78, settimeofday |-> 79, readlink |-> 85,
    fstat |-> 108, sysinfo |-> 116, uname |-> 122, prctl |-> 172,
    mmap2 |-> 192, fstat64 |-> 197, getuid32 |-> 199, getgid32 |-> 200,
    geteuid32 |-> 201, getegid32 |-> 202, getresuid32 |-> 209,
    getresgid32 |-> 211, getdents64 |-> 217, clock_settime |-> 262,
    clock_gettime |-> 263, statfs64 |-> 266, socket |-> 281,
    connect |-> 283, ioprio_set |-> 314, inotify_add_watch |-> 317,
    openat |-> 322, mkdirat |-> 323, fstatat64 |-> 327, unlinkat |-> 328,
    readlinkat |-> 332, faccessat |-> 334, read |-> 3, write |-> 4 ]

\* Syscall numbers of <asm/unistd.h>, arm64
NR_arm64 ==
  [ inotify_add_watch |-> 27, mkdirat |-> 34, unlinkat |-> 35,
    faccessat |-> 48, openat |-> 56, getdents64 |-> 61, readlinkat |-> 78,
    newfstatat |-> 79, clock_settime |-> 112, clock_gettime |-> 113,
    ptrace |-> 117, getresuid |-> 148, getresgid |-> 150,
    gettimeofday |-> 169, settimeofday |-> 170, getuid |-> 174,
    geteuid |-> 175, getgid |-> 176, getegid |-> 177, connect |-> 203,
    execve |-> 221, mmap |-> 222, read |-> 63, write |-> 64 ]

\* (unsigned long)__NR_<name> of the build
NR(b64, name) == W(IF b64 THEN NR_arm64[name] ELSE NR_arm[name])

---------------------------------------------------------------------------
\* struct sock_filter and the BPF_STMT / BPF_JUMP macros

BPF_STMT(code, k) == [code |-> code, jt |-> 0, jf |-> 0, k |-> k]

BPF_JUMP(code, k, jt, jf) == [code |-> code, jt |-> jt, jf |-> jf, k |-> k]

\* offsetof(struct seccomp_data, field): int nr; __u32 arch;
\* __u64 instruction_pointer; __u64 args[6]
offsetof(field) ==
  CASE field = "nr" -> 0
    [] field = "arch" -> 4
    [] field = "instruction_pointer" -> 8
    [] field = "args" -> 16

\* FilterHead32 with the window test the other way round: inside the
\* window leads to the syscall comparisons, outside of it returns ALLOW
FilterHead32_WindowInverted(reg) ==
  << BPF_STMT("LD", offsetof("arch")),
     BPF_JUMP("JEQ", AUDIT_ARCH_ARM, 1, 0),
     BPF_STMT("RET", "ALLOW"),
     BPF_STMT("LD", offsetof("instruction_pointer")),
     BPF_JUMP("JGE", W(4194304), 1, 0),
     BPF_STMT("RET", "ALLOW"),
     BPF_STMT("LD", offsetof("instruction_pointer")),
     BPF_JUMP("JGE", Lo32(PRELINKER_ADDR(reg)), 0, 1),
     BPF_JUMP("JGE", Lo32(LINKER_MAPS_LAST_ADDR(reg)), 0, 1),
     BPF_STMT("RET", "ALLOW") >>

\* FilterHead32 with the jump over the window's RET ALLOW taken always
FilterHead32_WindowSkipped(reg) ==
  << BPF_STMT("LD", offsetof("arch")),
     BPF_JUMP("JEQ", AUDIT_ARCH_ARM, 1, 0),
     BPF_STMT("RET", "ALLOW"),
     BPF_STMT("LD", offsetof("instruction_pointer")),
     BPF_JUMP("JGE", W(4194304), 1, 0),
     BPF_STMT("RET", "ALLOW"),
     BPF_STMT("LD", offsetof("instruction_pointer")),
     BPF_JUMP("JGE", Lo32(PRELINKER_ADDR(reg)), 0, 2),
     BPF_JUMP("JGE", Lo32(LINKER_MAPS_LAST_ADDR(reg)), 1, 1),
     BPF_STMT("RET", "ALLOW") >>

\* FilterHead32 with the jump over the threshold's RET ALLOW taken always
FilterHead32_ThresholdSkipped(reg) ==
  << BPF_STMT("LD", offsetof("arch")),
     BPF_JUMP("JEQ", AUDIT_ARCH_ARM, 1, 0),
     BPF_STMT("RET", "ALLOW"),
     BPF_STMT("LD", offsetof("instruction_pointer")),
     BPF_JUMP("JGE", W(4194304), 1, 1),
     BPF_STMT("RET", "ALLOW"),
     BPF_STMT("LD", offsetof("instruction_pointer")),
     BPF_JUMP("JGE", Lo32(PRELINKER_ADDR(reg)), 0, 2),
     BPF_JUMP("JGE", Lo32(LINKER_MAPS_LAST_ADDR(reg)), 1, 0),
     BPF_STMT("RET", "ALLOW") >>

\* The architecture check and the address check of the 32-bit build
FilterHead32(reg) ==
  << BPF_STMT("LD", offsetof("arch")),
     BPF_JUMP("JEQ", AUDIT_ARCH_ARM, 1, 0),
     BPF_STMT("RET", "ALLOW"),
     BPF_STMT("LD", offsetof("instruction_pointer")),
     BPF_JUMP("JGE", W(4194304), 1, 0),                     \* 0x400000
     BPF_STMT("RET", "ALLOW"),
     BPF_STMT("LD", offsetof("instruction_pointer")),
     BPF_JUMP("JGE", Lo32(PRELINKER_ADDR(reg)), 0, 2),
     BPF_JUMP("JGE", Lo32(LINKER_MAPS_LAST_ADDR(reg)), 1, 0),
     BPF_STMT("RET", "ALLOW") >>

\* The architecture check and the address check of the 64-bit build
FilterHead64(reg) ==
  << BPF_STMT("LD", offsetof("arch")),
     BPF_JUMP("JEQ", AUDIT_ARCH_AARCH64, 1, 0),
     BPF_STMT("RET", "ALLOW"),
     BPF_STMT("LD", offsetof("instruction_pointer") + 4),
     BPF_JUMP("JEQ", W(0), 0, 3),
     BPF_STMT("LD", offsetof("instruction_pointer")),
     BPF_JUMP("JGE", W(5242880), 1, 0),                     \* 0x500000
     BPF_STMT("RET", "ALLOW"),
     \* compare linker_begin
     BPF_STMT("LD", offsetof("instruction_pointer") + 4),
     BPF_JUMP("JGT", Hi32(PRELINKER_ADDR(reg)), 3, 0),
     BPF_JUMP("JGE", Hi32(PRELINKER_ADDR(reg)), 0, 8),
     BPF_STMT("LD", offsetof("instruction_pointer")),
     BPF_JUMP("JGE", Lo32(PRELINKER_ADDR(reg)), 0, 6),
     \* compare linker_end
     BPF_STMT("LD", offsetof("instruction_pointer") + 4),
     BPF_JUMP("JGT", Hi32(LINKER_MAPS_LAST_ADDR(reg)), 4, 0),
     BPF_JUMP("JGE", Hi32(LINKER_MAPS_LAST_ADDR(reg)), 0, 3),
     BPF_STMT("LD", offsetof("instruction_pointer")),
     BPF_JUMP("JGE", Lo32(LINKER_MAPS_LAST_ADDR(reg)), 1, 0),
     BPF_STMT("RET", "ALLOW") >>

\* The syscalls both builds compare the number with, in the array's order
DenyCommon ==
  << "openat", "readlinkat", "faccessat", "unlinkat", "connect", "execve",
     "inotify_add_watch", "mkdirat", "getdents64", "ptrace",
     "clock_settime", "clock_gettime", "gettimeofday", "settimeofday" >>

\* The 32-bit build's additions
Deny32 ==
  << "open", "readlink", "access", "getuid32", "getgid32", "fstat",
     "fstat64", "statfs64", "uname", "ioprio_set", "sysinfo", "socket",
     "ioctl", "prctl", "getuid32", "getgid32", "geteuid32", "getegid32",
     "getresuid32", "getresgid32", "inotify_add_watch", "fstatat64" >>

\* The 64-bit build's additions
Deny64 ==
  << "newfstatat", "getuid", "getgid", "geteuid", "getegid", "getresuid",
     "getresgid" >>

DenyNames(b64) == DenyCommon \o (IF b64 THEN Deny64 ELSE Deny32)

\* DenyBlock with jt and jf of each comparison exchanged
DenyBlock_JumpsSwapped(b64, names) ==
  [i \in 1..(2 * Len(names)) |->
     IF i % 2 = 1
       THEN BPF_JUMP("JEQ", NR(b64, names[(i + 1) \div 2]), 1, 0)
       ELSE BPF_STMT("RET", "TRAP")]

\* One JEQ nr, 0, 1 / RET TRAP pair per name
DenyBlock(b64, names) ==
  [i \in 1..(2 * Len(names)) |->
     IF i % 2 = 1
       THEN BPF_JUMP("JEQ", NR(b64, names[(i + 1) \div 2]), 0, 1)
       ELSE BPF_STMT("RET", "TRAP")]

\* The filter[] array of init_seccomp
filter(b64, reg) ==
  (IF b64 THEN FilterHead64(reg) ELSE FilterHead32(reg))
    \o << BPF_STMT("LD", offsetof("nr")) >>
    \o DenyBlock(b64, DenyNames(b64))
    \o << BPF_STMT("RET", "ALLOW") >>

---------------------------------------------------------------------------
\* The kernel's evaluation of an attached program on one seccomp_data

\* BPF_LD|BPF_W|BPF_ABS at byte offset off (little-endian: the low word of
\* instruction_pointer comes first)
LoadW(data, off) ==
  CASE off = 0 -> data.nr
    [] off = 4 -> data.arch
    [] off = 8 -> Lo32(data.instruction_pointer)
    [] off = 12 -> Hi32(data.instruction_pointer)

\* A valid program: every jump lands inside it and it ends in a RET
\* (the kernel refuses any other program at attach time)
bpf_check(prog) ==
  /\ Len(prog) > 0
  /\ prog[Len(prog)].code = "RET"
  /\ \A i \in 1..Len(prog) :
        /\ prog[i].code \in {"JEQ", "JGE", "JGT"}
              => /\ i + 1 + prog[i].jt <= Len(prog)
                 /\ i + 1 + prog[i].jf <= Len(prog)
        /\ prog[i].code = "RET" => prog[i].k \in {"ALLOW", "TRAP"}

RECURSIVE bpf_run(_, _, _, _)
bpf_run(prog, data, at, A) ==
  IF at > Len(prog) THEN "FELL_OFF"
  ELSE LET ins == prog[at] IN
    CASE ins.code = "LD" -> bpf_run(prog, data, at + 1, LoadW(data, ins.k))
      [] ins.code = "RET" -> ins.k
      [] ins.code = "JEQ" ->
           bpf_run(prog, data, at + 1 + (IF A = ins.k THEN ins.jt ELSE ins.jf), A)
      [] ins.code = "JGE" ->
           bpf_run(prog, data, at + 1 + (IF WGE(A, ins.k) THEN ins.jt ELSE ins.jf), A)
      [] ins.code = "JGT" ->
           bpf_run(prog, data, at + 1 + (IF WGT(A, ins.k) THEN ins.jt ELSE ins.jf), A)

\* All attached programs run; the most restrictive result wins
seccomp_run_filters(progs, data) ==
  LET rets == {bpf_run(progs[i], data, 1, W(0)) : i \in 1..Len(progs)} IN
    IF "FELL_OFF" \in rets THEN "FELL_OFF"
    ELSE IF "TRAP" \in rets THEN "TRAP"
    ELSE "ALLOW"

---------------------------------------------------------------------------
\* Addresses of the loader: byte addresses below 2^31.

PAGE_SIZE == 4096

PAGE_START(x) == x - (x % PAGE_SIZE)

PAGE_OFFSET(x) == x % PAGE_SIZE

PAGE_END(x) == PAGE_START(x + (PAGE_SIZE - 1))

\* PAGE_ALIGN of line 474
PAGE_ALIGN(v) == ((v + PAGE_SIZE - 1) \div PAGE_SIZE) * PAGE_SIZE

\* A loader address as the registry holds it (uintptr_t), and back
ToU64(n) == <<W(0), W(n)>>

FromU64(v) == v[2][1] * 65536 + v[2][2]

\* MAP_FAILED is (void*)-1
MAP_FAILED == -1

\* sizeof(ElfW(Phdr)) of the build
sizeof_Phdr == IF lp64 THEN 56 ELSE 32

\* PFLAGS_TO_PROT: PF_X, PF_R, PF_W to PROT_EXEC, PROT_READ, PROT_WRITE
PFLAGS_TO_PROT(x) ==
  (IF "PF_X" \in x THEN {"PROT_EXEC"} ELSE {})
    \cup (IF "PF_R" \in x THEN {"PROT_READ"} ELSE {})
    \cup (IF "PF_W" \in x THEN {"PROT_WRITE"} ELSE {})

---------------------------------------------------------------------------
\* phdr_table_get_load_size

SetMin(S) == CHOOSE x \in S : \A y \in S : x <= y

SetMax(S) == CHOOSE x \in S : \A y \in S : x >= y

\* max_vaddr rounded down to its page
phdr_table_get_load_size_MaxRoundedDown(phdr_table) ==
  LET loads_ == {i \in 1..Len(phdr_table) : phdr_table[i].p_type = "PT_LOAD"}
      min_vaddr == IF loads_ # {}
                     THEN SetMin({phdr_table[i].p_vaddr : i \in loads_})
                     ELSE 0
      max_vaddr == SetMax({0} \cup {phdr_table[i].p_vaddr + phdr_table[i].p_memsz
                                      : i \in loads_})
  IN [min_vaddr |-> PAGE_START(min_vaddr),
      max_vaddr |-> PAGE_START(max_vaddr),
      size |-> PAGE_START(max_vaddr) - PAGE_START(min_vaddr)]

phdr_table_get_load_size(phdr_table) ==
  LET loads_ == {i \in 1..Len(phdr_table) : phdr_table[i].p_type = "PT_LOAD"}
      found_pt_load == loads_ # {}
      min_vaddr == IF found_pt_load
                     THEN SetMin({phdr_table[i].p_vaddr : i \in loads_})
                     ELSE 0
      max_vaddr == SetMax({0} \cup {phdr_table[i].p_vaddr + phdr_table[i].p_memsz
                                      : i \in loads_})
  IN [min_vaddr |-> PAGE_START(min_vaddr),
      max_vaddr |-> PAGE_END(max_vaddr),
      size |-> PAGE_END(max_vaddr) - PAGE_START(min_vaddr)]

---------------------------------------------------------------------------
\* The images and the extinfo a Load is given

Phdr(type, flags, offset, filesz, memsz, vaddr) ==
  [p_type |-> type, p_flags |-> flags, p_offset |-> offset,
   p_filesz |-> filesz, p_memsz |-> memsz, p_vaddr |-> vaddr]

\* A text segment at vaddr 0 that starts with the ELF header
TextSeg == Phdr("PT_LOAD", {"PF_R", "PF_X"}, 0, 6144, 6144, 0)

\* A data segment with a .bss tail, sharing no page with the text
DataSeg == Phdr("PT_LOAD", {"PF_R", "PF_W"}, 6144, 768, 10496, 10240)

\* A segment whose lowest page is not page 0
HighSeg == Phdr("PT_LOAD", {"PF_R"}, 0, 4096, 4096, 4096)

\* A segment with nothing in the file
BssSeg == Phdr("PT_LOAD", {"PF_R", "PF_W"}, 0, 0, 8192, 0)

PhdrSeg == Phdr("PT_PHDR", {"PF_R"}, 64, 168, 168, 64)

DynSeg == Phdr("PT_DYNAMIC", {"PF_R", "PF_W"}, 6400, 64, 64, 10496)

\* A writable segment with a .bss tail and a read-only segment that begins
\* later in the same page; their vaddr ranges do not overlap
SharedA == Phdr("PT_LOAD", {"PF_R", "PF_W"}, 0, 256, 512, 0)

SharedB == Phdr("PT_LOAD", {"PF_R"}, 1024, 512, 512, 1024)

\* A segment of 0x140000 bytes, more than the 0x130000 bytes the registry
\* sets aside for the guest libc
BigSeg == Phdr("PT_LOAD", {"PF_R", "PF_W"}, 0, 4096, 1310720, 0)

\* A segment whose p_offset and p_vaddr differ within the page
SkewSeg == Phdr("PT_LOAD", {"PF_R"}, 4000, 4096, 4096, 0)

\* A PT_PHDR entry whose address, in an image loaded at 0x10000000, is
\* 32 bytes below the top of the address space (p_vaddr 0x...efffffe0)
WrapPhdr == Phdr("PT_PHDR", {"PF_R"}, 64, 64, 64, -268435488)

Tables ==
  { <<SkewSeg>>, <<BigSeg>>, <<WrapPhdr, TextSeg>>, <<TextSeg>>, <<TextSeg, DataSeg>>, <<PhdrSeg, TextSeg, DataSeg>>,
    <<HighSeg>>, <<DynSeg>>, <<BssSeg>>, <<DataSeg, TextSeg, DynSeg>>,
    <<SharedA, SharedB>>, <<SharedB, SharedA>> }

\* sizeof(ElfW(Ehdr)), where the program header table of the samples starts
sizeof_Ehdr == IF lp64 THEN 64 ELSE 52

GoodHeader(table) ==
  [magic |-> "ELFMAG",
   ei_class |-> IF lp64 THEN "ELFCLASS64" ELSE "ELFCLASS32",
   ei_data |-> "ELFDATA2LSB", e_type |-> "ET_DYN",
   e_version |-> "EV_CURRENT", e_machine |-> "ELF_TARG_MACH",
   e_phnum |-> Len(table), e_phoff |-> sizeof_Ehdr]

\* Headers that fail one check each
BadHeaders ==
  LET g == GoodHeader(<<TextSeg, DataSeg>>) IN
  { [g EXCEPT !.magic = "other"],
    [g EXCEPT !.ei_class = IF lp64 THEN "ELFCLASS32" ELSE "ELFCLASS64"],
    [g EXCEPT !.ei_class = "ELFCLASSNONE"],
    [g EXCEPT !.ei_data = "ELFDATA2MSB"],
    [g EXCEPT !.e_type = "ET_EXEC"],
    [g EXCEPT !.e_version = "EV_NONE"],
    [g EXCEPT !.e_machine = "other"],
    [g EXCEPT !.e_phnum = 0],
    [g EXCEPT !.e_phnum = (65536 \div sizeof_Phdr) + 1] }

NoExtinfo == [null |-> TRUE, flags |-> {}, reserved_size |-> 0, reserved_addr |-> 0]

Extinfos ==
  {NoExtinfo}
    \cup { [null |-> FALSE, flags |-> {f}, reserved_size |-> sz,
            reserved_addr |-> 1342177280]                 \* 0x50000000
           : f \in {"ANDROID_DLEXT_RESERVED_ADDRESS",
                    "ANDROID_DLEXT_RESERVED_ADDRESS_HINT"},
             sz \in {4096, 65536} }

\* name_libc: whether strstr(name_, "libc.so") finds the substring;
\* pread: what pread64 of the header returns (error, short, or the full size)
Images ==
  { [name_libc |-> n, pread |-> "full", header |-> GoodHeader(t),
     table |-> t, extinfo |-> e]
    : n \in BOOLEAN, t \in Tables, e \in Extinfos }
  \cup
  { [name_libc |-> TRUE, pread |-> "full", header |-> h,
     table |-> <<TextSeg, DataSeg>>, extinfo |-> NoExtinfo]
    : h \in BadHeaders }
  \cup
  { [name_libc |-> TRUE, pread |-> r, header |-> GoodHeader(<<TextSeg, DataSeg>>),
     table |-> <<TextSeg, DataSeg>>, extinfo |-> NoExtinfo]
    : r \in {"error", "short"} }

\* Addresses the kernel may pick for a mapping without MAP_FIXED
KernelAddrs == {268435456, 536870912}                     \* 0x10000000, 0x20000000

\* mmap(hint, len, ...) without MAP_FIXED: failure, the hint when it is a
\* free page-aligned address, or an address of the kernel's choice
MmapResults(hint) ==
  {MAP_FAILED} \cup KernelAddrs
    \cup (IF hint # 0 /\ PAGE_OFFSET(hint) = 0 THEN {hint} ELSE {})

\* The number of ElfReader objects one behaviour constructs
MaxLoads == 2

\* The registry as the pre-loader left it: the layout of the structure's
\* initialisers, each address lowered by 0x80000000 so that the loader's
\* address arithmetic stays below 2^31
LoaderRegistry ==
  [prelinker_addr |-> ToU64(1016987648),                  \* 0x3c9e0000
   guest_libc_addr |-> ToU64(1019609088),                 \* 0x3cc60000
   guest_libc_size |-> ToU64(1245184),                    \* 0x130000
   linker_maps_last_addr |-> ToU64(1020854272)]           \* 0x3cd90000

---------------------------------------------------------------------------
\* ElfReader

NewReader ==
  [header_ |-> "unread", phdr_num_ |-> 0, phdr_table_ |-> <<>>,
   load_start_ |-> 0, load_size_ |-> 0, load_bias_ |-> 0,
   loaded_phdr_ |-> 0, result |-> "running"]

\* One kernel call (or memset) of the current Load; seg is the index of the
\* program header it was made for, 0 outside LoadSegments
Ev(call, seg, addr, len, prot, fixed, ret) ==
  [call |-> call, seg |-> seg, addr |-> addr, len |-> len, prot |-> prot,
   fixed |-> fixed, ret |-> ret]

\* ElfReader::ElfReader, followed by the call of Load
Construct ==
  /\ pc \in {"idle", "done"}
  /\ loads < MaxLoads
  /\ \E img \in Images :
       /\ image' = img
       /\ reader' = NewReader
       /\ klog' = <<>>
       /\ dl_err' = <<>>
       /\ pc' = "ReadElfHeader"
       /\ loads' = loads + 1
  /\ UNCHANGED <<filter_vars, guest_writes, relro_vars, prot_vars>>

\* A stage returned false: Load returns false
Fail(msg) ==
  /\ pc' = "done"
  /\ dl_err' = msg

ReadElfHeader ==
  /\ pc = "ReadElfHeader"
  /\ IF image.pread = "error"
       THEN /\ Fail(<<"can't read file">>)
            /\ reader' = [reader EXCEPT !.result = "false"]
       ELSE IF image.pread = "short"
         THEN /\ Fail(<<"is too small to be an ELF executable">>)
              /\ reader' = [reader EXCEPT !.result = "false"]
         ELSE /\ reader' = [reader EXCEPT !.header_ = image.header]
              /\ pc' = "VerifyElfHeader"
              /\ UNCHANGED dl_err
  /\ UNCHANGED <<filter_vars, image, klog, guest_writes, loads, relro_vars, prot_vars>>

\* VerifyElfHeader without its e_machine check
VerifyResult_NoMachineCheck(h) ==
  IF h.magic # "ELFMAG" THEN "has bad ELF magic"
  ELSE IF h.ei_class # (IF lp64 THEN "ELFCLASS64" ELSE "ELFCLASS32")
    THEN "wrong ELF class"
  ELSE IF h.ei_data # "ELFDATA2LSB" THEN "not little-endian"
  ELSE IF h.e_type # "ET_DYN" THEN "has unexpected e_type"
  ELSE IF h.e_version # "EV_CURRENT" THEN "has unexpected e_version"
  ELSE "ok"

\* The first check of VerifyElfHeader the header fails, or "ok"
VerifyResult(h) ==
  IF h.magic # "ELFMAG" THEN "has bad ELF magic"
  ELSE IF h.ei_class # (IF lp64 THEN "ELFCLASS64" ELSE "ELFCLASS32")
    THEN "wrong ELF class"
  ELSE IF h.ei_data # "ELFDATA2LSB" THEN "not little-endian"
  ELSE IF h.e_type # "ET_DYN" THEN "has unexpected e_type"
  ELSE IF h.e_version # "EV_CURRENT" THEN "has unexpected e_version"
  ELSE IF h.e_machine # "ELF_TARG_MACH" THEN "has unexpected e_machine"
  ELSE "ok"

VerifyElfHeader ==
  /\ pc = "VerifyElfHeader"
  /\ IF VerifyResult(reader.header_) = "ok"
       THEN /\ pc' = "ReadProgramHeader"
            /\ UNCHANGED <<dl_err, reader>>
       ELSE /\ Fail(<<VerifyResult(reader.header_)>>)
            /\ reader' = [reader EXCEPT !.result = "false"]
  /\ UNCHANGED <<filter_vars, image, klog, guest_writes, loads, relro_vars, prot_vars>>

ReadProgramHeader ==
  /\ pc = "ReadProgramHeader"
  /\ LET n == reader.header_.e_phnum IN
     IF n < 1 \/ n > 65536 \div sizeof_Phdr
       THEN /\ Fail(<<"has invalid e_phnum", n>>)
            /\ reader' = [reader EXCEPT !.phdr_num_ = n, !.result = "false"]
            /\ UNCHANGED klog
       ELSE \E mmap_result \in {MAP_FAILED, 1} :
              /\ klog' = Append(klog, Ev("mmap64_phdr", 0, 0, n * sizeof_Phdr,
                                         {"PROT_READ"}, FALSE, mmap_result))
              /\ IF mmap_result = MAP_FAILED
                   THEN /\ Fail(<<"phdr mmap failed">>)
                        /\ reader' = [reader EXCEPT !.phdr_num_ = n,
                                                    !.result = "false"]
                   ELSE /\ reader' = [reader EXCEPT !.phdr_num_ = n,
                                                    !.phdr_table_ = image.table]
                        /\ pc' = "ReserveAddressSpace"
                        /\ UNCHANGED dl_err
  /\ UNCHANGED <<filter_vars, image, guest_writes, loads, relro_vars, prot_vars>>

---------------------------------------------------------------------------
\* init_seccomp and ElfReader::ReserveAddressSpace

\* init_seccomp: prctl(PR_SET_SECCOMP, SECCOMP_MODE_FILTER, &prog) attaches
\* the program when it returns 0; when it fails, __libc_fatal_no_abort
\* writes the message and returns, and init_seccomp returns to its caller.
\* The result is the list of attached programs after the call.
init_seccomp(progs, b64, reg, prctl_ret) ==
  IF prctl_ret = 0 THEN Append(progs, filter(b64, reg)) ELSE progs

\* The return values of prctl: 0, or -1 with errno set.  The kernel attaches
\* only a program that passes its checker.
PrctlResults(b64, reg) ==
  IF bpf_check(filter(b64, reg)) THEN {0, -1} ELSE {-1}

\* The test of line 825 without its address half
isGuestLibc_NameOnly(map_addr, name_libc) == name_libc

\* NULL == map_addr && 0 != strstr(name_, "libc.so")
isGuestLibc(map_addr, name_libc) == map_addr = 0 /\ name_libc

\* reserved_size and reserved_hint as lines 801-811 set them
ReservedSize(ext) ==
  IF ext.null THEN 0
  ELSE IF "ANDROID_DLEXT_RESERVED_ADDRESS" \in ext.flags THEN ext.reserved_size
  ELSE IF "ANDROID_DLEXT_RESERVED_ADDRESS_HINT" \in ext.flags THEN ext.reserved_size
  ELSE 0

\* reserved_hint never cleared
ReservedHint_NeverCleared(ext) == TRUE

ReservedHint(ext) ==
  ~(~ext.null /\ "ANDROID_DLEXT_RESERVED_ADDRESS" \in ext.flags)

\* The address the reservation mmap is asked for
MapAddr(addr, name_libc, reg) ==
  IF isGuestLibc(addr, name_libc) THEN FromU64(GUEST_LIBC_ADDR(reg)) ELSE addr

\* The registry after lines 842-843
WriteGuestLibc(reg, map_addr, load_size) ==
  [reg EXCEPT !.guest_libc_addr = ToU64(map_addr),
              !.guest_libc_size = ToU64(load_size)]

ReserveAddressSpace ==
  /\ pc = "ReserveAddressSpace"
  /\ LET ls == phdr_table_get_load_size(reader.phdr_table_)
         load_size == ls.size
         addr == ls.min_vaddr
         reserved_size == ReservedSize(image.extinfo)
         reserved_hint == ReservedHint(image.extinfo)
         guest == isGuestLibc(addr, image.name_libc)
         map_addr == MapAddr(addr, image.name_libc, registry)
         Done(start) ==
           /\ reader' = [reader EXCEPT !.load_size_ = load_size,
                                       !.load_start_ = start,
                                       !.load_bias_ = start - addr]
           /\ pc' = "LoadSegments"
           /\ UNCHANGED dl_err
         Failed(msg) ==
           /\ reader' = [reader EXCEPT !.load_size_ = load_size,
                                       !.result = "false"]
           /\ Fail(msg)
     IN
     IF load_size = 0
       THEN /\ Failed(<<"has no loadable segments">>)
            /\ UNCHANGED <<klog, registry, seccomp, guest_writes>>
     ELSE IF load_size > reserved_size
       THEN IF ~reserved_hint
         THEN /\ Failed(<<"reserved address space smaller than bytes needed",
                          reserved_size - load_size, load_size>>)
              /\ UNCHANGED <<klog, registry, seccomp, guest_writes>>
         ELSE \E start \in MmapResults(map_addr) :
           LET mm == Ev("mmap", 0, map_addr, load_size, {}, FALSE, start) IN
           IF start = MAP_FAILED
             THEN /\ Failed(<<"couldn't reserve bytes of address space", load_size>>)
                  /\ klog' = Append(klog, mm)
                  /\ UNCHANGED <<registry, seccomp, guest_writes>>
           ELSE IF guest
             THEN LET reg == WriteGuestLibc(registry, map_addr, load_size) IN
                  \E prctl_ret \in PrctlResults(lp64, reg) :
                    /\ registry' = reg
                    /\ guest_writes' = guest_writes + 1
                    /\ seccomp' = init_seccomp(seccomp, lp64, reg, prctl_ret)
                    /\ klog' = klog \o << mm, Ev("prctl", 0, 0, 0, {}, FALSE, prctl_ret) >>
                    /\ Done(start)
             ELSE /\ klog' = Append(klog, mm)
                  /\ Done(start)
                  /\ UNCHANGED <<registry, seccomp, guest_writes>>
       ELSE /\ Done(image.extinfo.reserved_addr)
            /\ UNCHANGED <<klog, registry, seccomp, guest_writes>>
  /\ UNCHANGED <<lp64, sd, verdict, image, loads, relro_vars, prot_vars>>

---------------------------------------------------------------------------
\* ElfReader::LoadSegments

\* The calls LoadSegments makes for program header i, all succeeding
SegmentCalls(phdr, i, load_bias) ==
  LET seg_start == phdr.p_vaddr + load_bias
      seg_end == seg_start + phdr.p_memsz
      seg_page_start == PAGE_START(seg_start)
      seg_page_end == PAGE_END(seg_end)
      seg_file_end == seg_start + phdr.p_filesz
      file_start == phdr.p_offset
      file_end == file_start + phdr.p_filesz
      file_page_start == PAGE_START(file_start)
      file_length == file_end - file_page_start
      prot == PFLAGS_TO_PROT(phdr.p_flags)
  IN
  IF phdr.p_type # "PT_LOAD" THEN <<>>
  ELSE
    (IF file_length # 0
       THEN << Ev("mmap64", i, seg_page_start, file_length, prot, TRUE,
                  seg_page_start) >>
       ELSE <<>>)
    \o
    (IF "PF_W" \in phdr.p_flags /\ PAGE_OFFSET(seg_file_end) > 0
       THEN << Ev("memset", i, seg_file_end,
                  PAGE_SIZE - PAGE_OFFSET(seg_file_end), prot, TRUE, 0) >>
       ELSE <<>>)
    \o
    (IF seg_page_end > PAGE_END(seg_file_end)
       THEN << Ev("mmap", i, PAGE_END(seg_file_end),
                  seg_page_end - PAGE_END(seg_file_end), prot, TRUE,
                  PAGE_END(seg_file_end)) >>
       ELSE <<>>)

\* Every segment one page above its place
RECURSIVE TableCalls_OnePageUp(_, _, _)
TableCalls_OnePageUp(phdr_table, i, load_bias) ==
  IF i > Len(phdr_table) THEN <<>>
  ELSE SegmentCalls(phdr_table[i], i, load_bias + PAGE_SIZE)
         \o TableCalls_OnePageUp(phdr_table, i + 1, load_bias)

RECURSIVE TableCalls(_, _, _)
TableCalls(phdr_table, i, load_bias) ==
  IF i > Len(phdr_table) THEN <<>>
  ELSE SegmentCalls(phdr_table[i], i, load_bias)
         \o TableCalls(phdr_table, i + 1, load_bias)

\* Any one of the mappings may fail; LoadSegments then returns false and
\* the calls after it are not made
LoadSegments ==
  /\ pc = "LoadSegments"
  /\ LET calls == TableCalls(reader.phdr_table_, 1, reader.load_bias_)
         maps == {k \in 1..Len(calls) : calls[k].call \in {"mmap64", "mmap"}}
     IN \E f \in {0} \cup maps :
          IF f = 0
            THEN /\ klog' = klog \o calls
                 /\ pc' = "FindPhdr"
                 /\ UNCHANGED <<dl_err, reader>>
            ELSE /\ klog' = klog \o SubSeq(calls, 1, f - 1)
                              \o << [calls[f] EXCEPT !.ret = MAP_FAILED] >>
                 /\ Fail(<<IF calls[f].call = "mmap64"
                             THEN "couldn't map segment"
                             ELSE "couldn't zero fill gap", calls[f].seg>>)
                 /\ reader' = [reader EXCEPT !.result = "false"]
  /\ UNCHANGED <<filter_vars, image, guest_writes, loads, relro_vars, prot_vars>>

\* The file of the image: none of its bytes is zero, and it is long enough
\* for every page LoadSegments maps
FileByte(off) == (off % 255) + 1

\* The first address after the bytes a call changed: a mapping covers whole
\* pages, memset its length
EvEnd(ev) ==
  IF ev.call = "memset" THEN ev.addr + ev.len ELSE PAGE_END(ev.addr + ev.len)

\* The byte at address a after the calls of log: the last call that covers a
\* decides it; the PROT_NONE reservation is anonymous memory
ByteAt(log, phdr_table, a) ==
  LET covering == {k \in 1..Len(log) :
                     /\ log[k].seg > 0 /\ log[k].ret # MAP_FAILED
                     /\ log[k].addr <= a /\ a < EvEnd(log[k])}
  IN IF covering = {} THEN 0
     ELSE LET ev == log[SetMax(covering)] IN
          IF ev.call = "mmap64"
            THEN FileByte(PAGE_START(phdr_table[ev.seg].p_offset) + (a - ev.addr))
            ELSE 0

---------------------------------------------------------------------------
\* ElfReader::FindPhdr and ElfReader::CheckPhdr

\* ElfW(Addr) arithmetic.  An address is kept as the two's complement
\* reading of its bits: a negative number -n stands for 2^w - n, the top of
\* the address space.  The sum of two addresses wraps at 2^w; on the 64-bit
\* build the addresses of the model are within 2^31 of 0, so the wrap is the
\* passage from -1 to 0, on the 32-bit build the sum of two numbers from
\* 2^30 on is a negative number.
AddrAdd(a, b) ==
  IF lp64 THEN a + b
  ELSE IF a >= 0 /\ b >= 0 /\ a > 2147483647 - b
    THEN (a - 2147483647 - 1) + (b - 2147483647 - 1)
  ELSE IF a < 0 /\ b < 0 /\ a < (-2147483647 - 1) - b
    THEN (a + 2147483647 + 1) + (b + 2147483647 + 1)
  ELSE a + b

\* a <= b as unsigned numbers
AddrLE(a, b) ==
  IF (a < 0) = (b < 0) THEN a <= b ELSE a >= 0

\* Whether CheckPhdr(loaded) returns true: some PT_LOAD entry has
\* seg_start <= loaded && loaded_end <= seg_end
CheckPhdr(phdr_table, phdr_num, load_bias, loaded) ==
  LET loaded_end == AddrAdd(loaded, phdr_num * sizeof_Phdr) IN
  \E i \in 1..Len(phdr_table) :
    /\ phdr_table[i].p_type = "PT_LOAD"
    /\ LET seg_start == AddrAdd(phdr_table[i].p_vaddr, load_bias)
           seg_end == AddrAdd(phdr_table[i].p_filesz, seg_start)
       IN AddrLE(seg_start, loaded) /\ AddrLE(loaded_end, seg_end)

\* The first PT_LOAD with file offset 0 is looked for among all of them
PhdrCandidate_AnyZeroOffsetLoad(phdr_table, load_bias, e_phoff) ==
  LET phdrs == {i \in 1..Len(phdr_table) : phdr_table[i].p_type = "PT_PHDR"}
      zeros == {i \in 1..Len(phdr_table) :
                  phdr_table[i].p_type = "PT_LOAD" /\ phdr_table[i].p_offset = 0}
  IN
  IF phdrs # {} THEN << AddrAdd(load_bias, phdr_table[SetMin(phdrs)].p_vaddr) >>
  ELSE IF zeros # {}
    THEN << AddrAdd(AddrAdd(load_bias, phdr_table[SetMin(zeros)].p_vaddr), e_phoff) >>
  ELSE <<>>

\* The address FindPhdr hands to CheckPhdr, as a one-element sequence, or
\* <<>> when it finds none.  e_phoff is read from the ELF header in the
\* memory of the first PT_LOAD.
PhdrCandidate(phdr_table, load_bias, e_phoff) ==
  LET phdrs == {i \in 1..Len(phdr_table) : phdr_table[i].p_type = "PT_PHDR"}
      lds == {i \in 1..Len(phdr_table) : phdr_table[i].p_type = "PT_LOAD"}
  IN
  IF phdrs # {} THEN << AddrAdd(load_bias, phdr_table[SetMin(phdrs)].p_vaddr) >>
  ELSE IF lds # {} /\ phdr_table[SetMin(lds)].p_offset = 0
    THEN << AddrAdd(AddrAdd(load_bias, phdr_table[SetMin(lds)].p_vaddr), e_phoff) >>
  ELSE <<>>

FindPhdr ==
  /\ pc = "FindPhdr"
  /\ LET cand == PhdrCandidate(reader.phdr_table_, reader.load_bias_,
                               reader.header_.e_phoff)
     IN
     IF cand = <<>>
       THEN /\ Fail(<<"can't find loaded phdr">>)
            /\ reader' = [reader EXCEPT !.result = "false"]
     ELSE IF CheckPhdr(reader.phdr_table_, reader.phdr_num_, reader.load_bias_,
                       cand[1])
       THEN /\ reader' = [reader EXCEPT !.loaded_phdr_ = cand[1],
                                        !.result = "true"]
            /\ pc' = "done"
            /\ UNCHANGED dl_err
     ELSE /\ Fail(<<"loaded phdr not in loadable segment", cand[1]>>)
          /\ reader' = [reader EXCEPT !.result = "false"]
  /\ UNCHANGED <<filter_vars, image, klog, guest_writes, loads, relro_vars, prot_vars>>

---------------------------------------------------------------------------
\* The loader process

Init ==
  /\ lp64 \in BOOLEAN
  /\ registry = LoaderRegistry
  /\ seccomp = <<>>
  /\ sd = <<>>
  /\ verdict = "NONE"
  /\ pc = "idle"
  /\ image = <<>>
  /\ reader = <<>>
  /\ klog = <<>>
  /\ dl_err = <<>>
  /\ guest_writes = 0
  /\ loads = 0
  /\ mem = <<>>
  /\ relro_fd = <<>>
  /\ relro_in = <<>>
  /\ relro_ret = 0
  /\ relro_w = <<>>
  /\ pprot = <<>>
  /\ prot_in = <<>>
  /\ prot_ret = 0

Next ==
  \/ Construct
  \/ ReadElfHeader
  \/ VerifyElfHeader
  \/ ReadProgramHeader
  \/ ReserveAddressSpace
  \/ LoadSegments
  \/ FindPhdr

Spec == Init /\ [][Next]_vars

---------------------------------------------------------------------------
\* The filter at work: init_seccomp on a registry, then the syscalls of the
\* process, each evaluated by the attached programs

\* The number of programs attached in the filter specification
MaxFilters == 1

\* Low words an instruction pointer or a window bound is drawn from:
\* 0, 0x3fffff, 0x400000, 0x4fffff, 0x500000, 0xbc9dffff, 0xbc9e0000,
\* 0xbc9e000a, 0xbcd8ffff, 0xbcd90000, 0xbcd90001, 0xffffffff
LoWords ==
  { <<0, 0>>, <<63, 65535>>, <<64, 0>>, <<79, 65535>>, <<80, 0>>,
    <<48285, 65535>>, <<48286, 0>>, <<48286, 10>>, <<48344, 65535>>,
    <<48345, 0>>, <<48345, 1>>, <<65535, 65535>> }

\* High words: 0 on the 32-bit build; 0, 0x77, 0x78, 0x79 on the 64-bit build
HiWords(b64) == IF b64 THEN {W(0), W(119), W(120), W(121)} ELSE {W(0)}

Window(begin, end) ==
  [prelinker_addr |-> begin, guest_libc_addr |-> ToU64(1019609088),
   guest_libc_size |-> ToU64(1245184), linker_maps_last_addr |-> end]

\* Registries the filter is built from: the window of the layout, a window
\* over the low addresses, an empty window and, on the 64-bit build, windows
\* whose bounds differ in the high word
FilterRegistries(b64) ==
  IF b64
    THEN { Window(<<W(120), <<48286, 0>>>>, <<W(120), <<48345, 0>>>>),
           Window(<<W(119), <<48345, 0>>>>, <<W(121), <<48286, 0>>>>),
           Window(<<W(0), <<48286, 0>>>>, <<W(120), <<64, 0>>>>),
           Window(<<W(0), <<0, 0>>>>, <<W(0), <<48286, 0>>>>),
           Window(<<W(120), <<48286, 0>>>>, <<W(120), <<48286, 0>>>>) }
    ELSE { Window(<<W(0), <<48286, 0>>>>, <<W(0), <<48345, 0>>>>),
           Window(<<W(0), <<0, 0>>>>, <<W(0), <<48286, 0>>>>),
           Window(<<W(0), <<48286, 0>>>>, <<W(0), <<48286, 0>>>>) }

\* The syscalls the process makes
SyscallNames(b64) == IF b64 THEN DOMAIN NR_arm64 ELSE DOMAIN NR_arm

\* The architecture tokens the kernel may report (the third is x86_64's)
ArchTokens == {AUDIT_ARCH_ARM, AUDIT_ARCH_AARCH64, <<49152, 62>>}

\* The seccomp_data of a syscall: its number, the architecture token and
\* the instruction pointer of the syscall instruction
SeccompData(b64) ==
  { [nr |-> NR(b64, name), arch |-> arch, instruction_pointer |-> <<hi, lo>>]
    : name \in SyscallNames(b64), arch \in ArchTokens,
      hi \in HiWords(b64), lo \in LoWords }

\* The filter is stateless: the registry the program is built from and the
\* syscall the process then makes are drawn here, every pair of them
InitFilter ==
  /\ lp64 \in BOOLEAN
  /\ registry \in FilterRegistries(lp64)
  /\ seccomp = <<>>
  /\ sd \in SeccompData(lp64)
  /\ verdict = "NONE"
  /\ pc = "idle"
  /\ image = <<>>
  /\ reader = <<>>
  /\ klog = <<>>
  /\ dl_err = <<>>
  /\ guest_writes = 0
  /\ loads = 0
  /\ mem = <<>>
  /\ relro_fd = <<>>
  /\ relro_in = <<>>
  /\ relro_ret = 0
  /\ relro_w = <<>>
  /\ pprot = <<>>
  /\ prot_in = <<>>
  /\ prot_ret = 0

\* init_seccomp() with the prctl succeeding
InstallFilter ==
  /\ Len(seccomp) < MaxFilters
  /\ 0 \in PrctlResults(lp64, registry)
  /\ seccomp' = init_seccomp(seccomp, lp64, registry, 0)
  /\ UNCHANGED <<lp64, registry, sd, verdict, loader_vars, relro_vars, prot_vars>>

\* The syscall of the sandboxed process: the kernel runs the attached
\* programs on its seccomp_data
Syscall ==
  /\ seccomp # <<>>
  /\ verdict = "NONE"
  /\ verdict' = seccomp_run_filters(seccomp, sd)
  /\ UNCHANGED <<lp64, registry, seccomp, sd, loader_vars, relro_vars, prot_vars>>

NextFilter ==
  \/ InstallFilter
  \/ Syscall

SpecFilter == InitFilter /\ [][NextFilter]_vars

---------------------------------------------------------------------------
\* phdr_table_map_gnu_relro.  Memory and the file are sequences of pages;
\* the contents of a page are one value, so that memcmp over PAGE_SIZE bytes
\* is the equality of two page contents.  Page p is the page at address
\* p * PAGE_SIZE; the file's page q (from 0) is relro_fd[q + 1].

\* Bounds of the relro inputs
MaxRelroEntries == 2

MaxFilePages == 3

MaxRemapFault == 2

MaxSerializeFault == 2

MaxProtFault == 2

PageContents == {"a", "b"}

RelroA == Phdr("PT_GNU_RELRO", {"PF_R"}, 12288, 4096, 4096, 12288)

\* A relro range that starts and ends inside a page
RelroB == Phdr("PT_GNU_RELRO", {"PF_R"}, 22528, 4096, 4096, 22528)

RelroEntries == {RelroA, RelroB, DataSeg}

\* Program header tables whose entries are distinct, so that no two relro
\* ranges overlap
RelroTables ==
  {t \in UNION {[1..n -> RelroEntries] : n \in 1..MaxRelroEntries} :
     \A i, j \in 1..Len(t) : i # j => t[i] # t[j]}

RelroBiases == {0, 4096}

\* Only the pages that lie wholly inside the range
RelroPagesOf_WhollyCovered(phdr, load_bias) ==
  LET first == PAGE_END(phdr.p_vaddr) + load_bias
      last == PAGE_START(phdr.p_vaddr + phdr.p_memsz) + load_bias
  IN (first \div PAGE_SIZE) .. ((last \div PAGE_SIZE) - 1)

\* The pages of the relro ranges of a table
RelroPagesOf(phdr, load_bias) ==
  LET seg_page_start == PAGE_START(phdr.p_vaddr) + load_bias
      seg_page_end == PAGE_END(phdr.p_vaddr + phdr.p_memsz) + load_bias
  IN (seg_page_start \div PAGE_SIZE) .. ((seg_page_end \div PAGE_SIZE) - 1)

RelroPages(phdr_table, load_bias) ==
  UNION {RelroPagesOf(phdr_table[i], load_bias)
           : i \in {j \in 1..Len(phdr_table) : phdr_table[j].p_type = "PT_GNU_RELRO"}}

\* The file offset (in pages) of the mmap of line 1159-1160, given the
\* segment's base offset in the file and the offset of the run in the segment
RemapFileOffset(file_offset, match_offset) == match_offset

\* The comparison made against the start of the file
SamePage_FileBaseDropped(m, fd, mem_base, file_base, off) ==
  m[mem_base + off].data = fd[off + 1]

\* memcmp(mem_base + off, file_base + off, PAGE_SIZE) == 0
SamePage(m, fd, mem_base, file_base, off) ==
  m[mem_base + off].data = fd[file_base + off + 1]

\* while (match_offset < size && memcmp(...) != 0) match_offset += PAGE_SIZE
RECURSIVE SkipDissimilar(_, _, _, _, _, _)
SkipDissimilar(m, fd, mem_base, file_base, off, size) ==
  IF off < size /\ ~SamePage(m, fd, mem_base, file_base, off)
    THEN SkipDissimilar(m, fd, mem_base, file_base, off + 1, size)
    ELSE off

\* while (mismatch_offset < size && memcmp(...) == 0) mismatch_offset += PAGE_SIZE
RECURSIVE CountSimilar(_, _, _, _, _, _)
CountSimilar(m, fd, mem_base, file_base, off, size) ==
  IF off < size /\ SamePage(m, fd, mem_base, file_base, off)
    THEN CountSimilar(m, fd, mem_base, file_base, off + 1, size)
    ELSE off

\* mmap(mem_base + match_offset, len, PROT_READ, MAP_PRIVATE|MAP_FIXED, fd, off):
\* the pages now show the file's pages from off on
MapFixedFromFile(m, fd, first_page, npages, file_page) ==
  [p \in DOMAIN m |->
     IF p >= first_page /\ p < first_page + npages
       THEN [data |-> IF file_page + (p - first_page) + 1 <= Len(fd)
                        THEN fd[file_page + (p - first_page) + 1]
                        ELSE "SIGBUS",
             backing |-> "file"]
       ELSE m[p]]

\* The loop over one segment (lines 1143-1168).  st.mem is the memory,
\* st.left the number of mmap calls that still succeed (-1: all do),
\* st.ret becomes -1 when an mmap fails.
RECURSIVE MapSegmentRuns(_, _, _, _, _, _)
MapSegmentRuns(st, fd, mem_base, file_base, offset, size) ==
  IF st.ret # 0 \/ offset >= size THEN st
  ELSE
    LET match_offset == SkipDissimilar(st.mem, fd, mem_base, file_base, offset, size)
        mismatch_offset == CountSimilar(st.mem, fd, mem_base, file_base,
                                        match_offset, size)
        st2 == IF mismatch_offset > match_offset
                 THEN IF st.left = 0
                        THEN [st EXCEPT !.ret = -1]
                        ELSE [st EXCEPT
                                !.mem = MapFixedFromFile(st.mem, fd,
                                          mem_base + match_offset,
                                          mismatch_offset - match_offset,
                                          RemapFileOffset(file_base, match_offset)),
                                !.left = IF st.left > 0 THEN st.left - 1 ELSE st.left]
                 ELSE st
    IN MapSegmentRuns(st2, fd, mem_base, file_base, mismatch_offset, size)

\* The loop over the table (lines 1123-1172); file_offset in pages
RECURSIVE MapRelroFrom(_, _, _, _, _, _)
MapRelroFrom(st, fd, phdr_table, load_bias, i, file_offset) ==
  IF st.ret # 0 \/ i > Len(phdr_table) THEN st
  ELSE IF phdr_table[i].p_type # "PT_GNU_RELRO"
    THEN MapRelroFrom(st, fd, phdr_table, load_bias, i + 1, file_offset)
  ELSE
    LET seg_page_start == PAGE_START(phdr_table[i].p_vaddr) + load_bias
        seg_page_end == PAGE_END(phdr_table[i].p_vaddr + phdr_table[i].p_memsz)
                          + load_bias
        size == (seg_page_end - seg_page_start) \div PAGE_SIZE
    IN IF Len(fd) - file_offset < size
         THEN st                                     \* break
         ELSE MapRelroFrom(
                MapSegmentRuns(st, fd, seg_page_start \div PAGE_SIZE,
                               file_offset, 0, size),
                fd, phdr_table, load_bias, i + 1, file_offset + size)

\* phdr_table_map_gnu_relro(phdr_table, phdr_count, load_bias, fd).
\* fault: 0 no call fails, -1 fstat fails, -2 the temporary mapping fails,
\* k > 0 the k-th MAP_FIXED mapping fails.
phdr_table_map_gnu_relro(m, fd, phdr_table, load_bias, fault) ==
  IF fault = -1 THEN [mem |-> m, left |-> 0, ret |-> -1]
  ELSE IF fault = -2 /\ Len(fd) > 0 THEN [mem |-> m, left |-> 0, ret |-> -1]
  ELSE MapRelroFrom([mem |-> m, left |-> IF fault > 0 THEN fault - 1 ELSE -1,
                     ret |-> 0],
                    fd, phdr_table, load_bias, 1, 0)

\* write(fd, buf, n pages) at file position pos (in pages)
WriteAt(fd, pos, data) ==
  [k \in 1..(IF Len(fd) > pos + Len(data) THEN Len(fd) ELSE pos + Len(data)) |->
     IF k > pos /\ k <= pos + Len(data) THEN data[k - pos] ELSE fd[k]]

\* The loop of phdr_table_serialize_gnu_relro (lines 1063-1082).  st.mem is
\* the memory, st.fd the file, st.calls the number of write and mmap calls
\* made, st.ret becomes -1 when a call fails.  The file position is
\* file_offset: the descriptor was opened at offset 0 and only this loop
\* writes to it.  fault.at is the call that fails (0: none); a failing
\* write is short by fault.short pages (all of them: nothing is written).
RECURSIVE SerializeFrom(_, _, _, _, _, _)
SerializeFrom(st, phdr_table, load_bias, i, file_offset, fault) ==
  IF st.ret # 0 \/ i > Len(phdr_table) THEN st
  ELSE IF phdr_table[i].p_type # "PT_GNU_RELRO"
    THEN SerializeFrom(st, phdr_table, load_bias, i + 1, file_offset, fault)
  ELSE
    LET seg_page_start == PAGE_START(phdr_table[i].p_vaddr) + load_bias
        seg_page_end == PAGE_END(phdr_table[i].p_vaddr + phdr_table[i].p_memsz)
                          + load_bias
        first == seg_page_start \div PAGE_SIZE
        size == (seg_page_end - seg_page_start) \div PAGE_SIZE
        buf == [k \in 1..size |-> st.mem[first + k - 1].data]
        write_fails == fault.at = st.calls + 1
        written == IF write_fails
                     THEN (IF fault.short >= size THEN 0 ELSE size - fault.short)
                     ELSE size
        fd2 == WriteAt(st.fd, file_offset, SubSeq(buf, 1, written))
        mmap_fails == fault.at = st.calls + 2
        st2 == IF write_fails
                 THEN [st EXCEPT !.fd = fd2, !.calls = st.calls + 1, !.ret = -1]
               ELSE IF mmap_fails
                 THEN [st EXCEPT !.fd = fd2, !.calls = st.calls + 2, !.ret = -1]
               ELSE [st EXCEPT !.fd = fd2, !.calls = st.calls + 2,
                               !.mem = MapFixedFromFile(st.mem, fd2, first, size,
                                                        file_offset)]
    IN SerializeFrom(st2, phdr_table, load_bias, i + 1, file_offset + size, fault)

\* phdr_table_serialize_gnu_relro(phdr_table, phdr_count, load_bias, fd)
phdr_table_serialize_gnu_relro(m, fd, phdr_table, load_bias, fault) ==
  SerializeFrom([mem |-> m, fd |-> fd, calls |-> 0, ret |-> 0],
                phdr_table, load_bias, 1, 0, fault)

\* A process that has serialized nothing and will not
NoWriter == [present |-> FALSE, mem |-> <<>>, before |-> <<>>, load_bias |-> 0,
             ret |-> 0, called |-> TRUE, fd_before |-> <<>>]

\* A relocated image and a relro file.  Either the file comes from elsewhere
\* and holds any contents, or it is empty and a second process holding the
\* same image, at any bias and with any page contents, will write it.
InitRelro ==
  /\ lp64 = FALSE
  /\ registry = LoaderRegistry
  /\ seccomp = <<>>
  /\ sd = <<>>
  /\ verdict = "NONE"
  /\ pc = "idle"
  /\ image = <<>>
  /\ reader = <<>>
  /\ klog = <<>>
  /\ dl_err = <<>>
  /\ guest_writes = 0
  /\ loads = 0
  /\ pprot = <<>>
  /\ prot_in = <<>>
  /\ prot_ret = 0
  /\ relro_ret = 0
  /\ \E t \in RelroTables, b \in RelroBiases :
       /\ mem \in [RelroPages(t, b) -> [data : PageContents, backing : {"private"}]]
       /\ relro_in = [phdr_table |-> t, load_bias |-> b, before |-> mem,
                      called |-> FALSE, fd_at_call |-> <<>>,
                      after_serialize |-> FALSE]
       /\ \/ /\ relro_fd \in UNION {[1..n -> PageContents] : n \in 0..MaxFilePages}
             /\ relro_w = NoWriter
          \/ /\ relro_fd = <<>>
             /\ \E bw \in RelroBiases :
                  \E mw \in [RelroPages(t, bw) ->
                               [data : PageContents, backing : {"private"}]] :
                    relro_w = [present |-> TRUE, mem |-> mw, before |-> mw, load_bias |-> bw,
                               ret |-> 0, called |-> FALSE, fd_before |-> <<>>]

\* The writing process calls phdr_table_serialize_gnu_relro
SerializeGnuRelro ==
  /\ ~relro_w.called
  /\ \E at \in 0..MaxSerializeFault, short \in 1..2 :
       LET st == phdr_table_serialize_gnu_relro(
                   relro_w.mem, relro_fd, relro_in.phdr_table, relro_w.load_bias,
                   [at |-> at, short |-> short])
       IN /\ relro_fd' = st.fd
          /\ relro_w' = [relro_w EXCEPT !.mem = st.mem, !.ret = st.ret,
                                        !.called = TRUE, !.fd_before = relro_fd]
  /\ UNCHANGED <<filter_vars, loader_vars, mem, relro_in, relro_ret, prot_vars>>

\* The process calls phdr_table_map_gnu_relro
MapGnuRelro ==
  /\ ~relro_in.called
  /\ \E fault \in (-2)..MaxRemapFault :
       LET st == phdr_table_map_gnu_relro(mem, relro_fd, relro_in.phdr_table,
                                          relro_in.load_bias, fault)
       IN /\ mem' = st.mem
          /\ relro_ret' = st.ret
  /\ relro_in' = [relro_in EXCEPT !.called = TRUE, !.fd_at_call = relro_fd,
                                  !.after_serialize = (relro_w.present
                                                       /\ relro_w.called)]
  /\ UNCHANGED <<filter_vars, loader_vars, relro_fd, relro_w, prot_vars>>

NextRelro ==
  \/ SerializeGnuRelro
  \/ MapGnuRelro

SpecRelro == InitRelro /\ [][NextRelro]_vars

\* C10 as stated: after phdr_table_map_gnu_relro returns 0, every page of
\* every relro range reads the same bytes as before the call, for tables
\* with one PT_GNU_RELRO entry and with more.
C10_RelroBytesKept ==
  (relro_in.called /\ relro_ret = 0)
    => \A p \in DOMAIN mem : mem[p].data = relro_in.before[p].data

---------------------------------------------------------------------------
\* _phdr_table_set_load_prot and _phdr_table_set_gnu_relro_prot, on the
\* protection of the pages of a loaded image

\* The number of protection calls made on one image
MaxProtCalls == 3

\* A relro range that begins and ends inside pages of the data segment
RelroD == Phdr("PT_GNU_RELRO", {"PF_R"}, 10496, 4096, 4096, 10496)

ProtTables ==
  { <<TextSeg, DataSeg>>, <<TextSeg, DataSeg, RelroA>>,
    <<TextSeg, DataSeg, RelroD>>, <<PhdrSeg, TextSeg, DataSeg, DynSeg, RelroD, RelroA>>,
    <<SharedA, SharedB>>, <<SharedB, SharedA>> }

\* seg_page_start and seg_page_end of lines 935-936, as page numbers
SegPagesOf(phdr, load_bias) ==
  LET seg_page_start == PAGE_START(phdr.p_vaddr) + load_bias
      seg_page_end == PAGE_END(phdr.p_vaddr + phdr.p_memsz) + load_bias
  IN (seg_page_start \div PAGE_SIZE) .. ((seg_page_end \div PAGE_SIZE) - 1)

\* mprotect(first page, pages, prot)
Mprotect(m, pages, prot) ==
  [p \in DOMAIN m |-> IF p \in pages THEN prot ELSE m[p]]

\* The protection LoadSegments leaves: each PT_LOAD maps its pages with
\* PFLAGS_TO_PROT(p_flags), in table order; the rest of the reservation is
\* PROT_NONE
RECURSIVE LoadedProt(_, _, _, _)
LoadedProt(m, phdr_table, load_bias, i) ==
  IF i > Len(phdr_table) THEN m
  ELSE LoadedProt(
         IF phdr_table[i].p_type = "PT_LOAD"
           THEN Mprotect(m, SegPagesOf(phdr_table[i], load_bias),
                         PFLAGS_TO_PROT(phdr_table[i].p_flags))
           ELSE m,
         phdr_table, load_bias, i + 1)

\* The loop of _phdr_table_set_load_prot.  st.prot is the protection of the
\* pages, st.left the number of mprotect calls that still succeed (-1: all)
RECURSIVE SetLoadProtFrom(_, _, _, _, _)
SetLoadProtFrom(st, phdr_table, load_bias, extra_prot_flags, i) ==
  IF st.ret # 0 \/ i > Len(phdr_table) THEN st
  ELSE IF phdr_table[i].p_type # "PT_LOAD" \/ "PF_W" \in phdr_table[i].p_flags
    THEN SetLoadProtFrom(st, phdr_table, load_bias, extra_prot_flags, i + 1)
  ELSE IF st.left = 0 THEN [st EXCEPT !.ret = -1]
  ELSE SetLoadProtFrom(
         [st EXCEPT !.prot = Mprotect(st.prot, SegPagesOf(phdr_table[i], load_bias),
                                      PFLAGS_TO_PROT(phdr_table[i].p_flags)
                                        \cup extra_prot_flags),
                    !.left = IF st.left > 0 THEN st.left - 1 ELSE st.left],
         phdr_table, load_bias, extra_prot_flags, i + 1)

phdr_table_set_load_prot(m, phdr_table, load_bias, extra_prot_flags, fault) ==
  SetLoadProtFrom([prot |-> m, left |-> IF fault > 0 THEN fault - 1 ELSE -1,
                   ret |-> 0],
                  phdr_table, load_bias, extra_prot_flags, 1)

\* protect called with the extra flag of unprotect
phdr_table_protect_segments_AddsWrite(m, phdr_table, load_bias, fault) ==
  phdr_table_set_load_prot(m, phdr_table, load_bias, {"PROT_WRITE"}, fault)

phdr_table_protect_segments(m, phdr_table, load_bias, fault) ==
  phdr_table_set_load_prot(m, phdr_table, load_bias, {}, fault)

phdr_table_unprotect_segments(m, phdr_table, load_bias, fault) ==
  phdr_table_set_load_prot(m, phdr_table, load_bias, {"PROT_WRITE"}, fault)

\* The loop of _phdr_table_set_gnu_relro_prot
RECURSIVE SetGnuRelroProtFrom(_, _, _, _, _)
SetGnuRelroProtFrom(st, phdr_table, load_bias, prot_flags, i) ==
  IF st.ret # 0 \/ i > Len(phdr_table) THEN st
  ELSE IF phdr_table[i].p_type # "PT_GNU_RELRO"
    THEN SetGnuRelroProtFrom(st, phdr_table, load_bias, prot_flags, i + 1)
  ELSE IF st.left = 0 THEN [st EXCEPT !.ret = -1]
  ELSE SetGnuRelroProtFrom(
         [st EXCEPT !.prot = Mprotect(st.prot, RelroPagesOf(phdr_table[i], load_bias),
                                      prot_flags),
                    !.left = IF st.left > 0 THEN st.left - 1 ELSE st.left],
         phdr_table, load_bias, prot_flags, i + 1)

phdr_table_protect_gnu_relro(m, phdr_table, load_bias, fault) ==
  SetGnuRelroProtFrom([prot |-> m, left |-> IF fault > 0 THEN fault - 1 ELSE -1,
                       ret |-> 0],
                      phdr_table, load_bias, {"PROT_READ"}, 1)

\* The pages of the reservation of an image loaded at load_bias
ImagePages(phdr_table, load_bias) ==
  LET ls == phdr_table_get_load_size(phdr_table)
  IN ((ls.min_vaddr + load_bias) \div PAGE_SIZE)
       .. (((ls.max_vaddr + load_bias) \div PAGE_SIZE) - 1)

\* An image as LoadSegments left it
InitProt ==
  /\ lp64 = FALSE
  /\ registry = LoaderRegistry
  /\ seccomp = <<>>
  /\ sd = <<>>
  /\ verdict = "NONE"
  /\ pc = "idle"
  /\ image = <<>>
  /\ reader = <<>>
  /\ klog = <<>>
  /\ dl_err = <<>>
  /\ guest_writes = 0
  /\ loads = 0
  /\ mem = <<>>
  /\ relro_fd = <<>>
  /\ relro_in = <<>>
  /\ relro_ret = 0
  /\ relro_w = <<>>
  /\ prot_ret = 0
  /\ \E t \in ProtTables, b \in RelroBiases :
       /\ pprot = LoadedProt([p \in ImagePages(t, b) |-> {}], t, b, 1)
       /\ prot_in = [phdr_table |-> t, load_bias |-> b, before |-> pprot,
                     last |-> "none", calls |-> 0]

\* One of the three calls, any one of its mprotect calls failing or none
ProtCall(name, st) ==
  /\ pprot' = st.prot
  /\ prot_ret' = st.ret
  /\ prot_in' = [prot_in EXCEPT !.before = pprot, !.last = name,
                                !.calls = prot_in.calls + 1]
  /\ UNCHANGED <<filter_vars, loader_vars, relro_vars>>

ProtectSegments ==
  /\ prot_in.calls < MaxProtCalls
  /\ \E fault \in 0..MaxProtFault :
       ProtCall("phdr_table_protect_segments",
                phdr_table_protect_segments(pprot, prot_in.phdr_table,
                                            prot_in.load_bias, fault))

UnprotectSegments ==
  /\ prot_in.calls < MaxProtCalls
  /\ \E fault \in 0..MaxProtFault :
       ProtCall("phdr_table_unprotect_segments",
                phdr_table_unprotect_segments(pprot, prot_in.phdr_table,
                                              prot_in.load_bias, fault))

ProtectGnuRelro ==
  /\ prot_in.calls < MaxProtCalls
  /\ \E fault \in 0..MaxProtFault :
       ProtCall("phdr_table_protect_gnu_relro",
                phdr_table_protect_gnu_relro(pprot, prot_in.phdr_table,
                                             prot_in.load_bias, fault))

NextProt ==
  \/ ProtectSegments
  \/ UnprotectSegments
  \/ ProtectGnuRelro

SpecProt == InitProt /\ [][NextProt]_vars

\* The pages of the writable PT_LOAD entries
WritableSegmentPages ==
  UNION {SegPagesOf(prot_in.phdr_table[i], prot_in.load_bias)
           : i \in {j \in 1..Len(prot_in.phdr_table) :
                      /\ prot_in.phdr_table[j].p_type = "PT_LOAD"
                      /\ "PF_W" \in prot_in.phdr_table[j].p_flags}}

\* The pages of the PT_LOAD entries that are not writable
ReadOnlySegmentPages ==
  UNION {SegPagesOf(prot_in.phdr_table[i], prot_in.load_bias)
           : i \in {j \in 1..Len(prot_in.phdr_table) :
                      /\ prot_in.phdr_table[j].p_type = "PT_LOAD"
                      /\ "PF_W" \notin prot_in.phdr_table[j].p_flags}}

\* C15 as stated: phdr_table_protect_segments and
\* phdr_table_unprotect_segments leave the protection of every page of every
\* writable PT_LOAD segment as it was, also when a writable and a
\* non-writable segment lie in one page.
C15_WritableUntouched ==
  prot_in.last \in {"phdr_table_protect_segments", "phdr_table_unprotect_segments"}
    => \A p \in WritableSegmentPages : pprot[p] = prot_in.before[p]

\* C15 amended: both calls leave unchanged every page that holds no part of
\* a non-writable PT_LOAD segment, so every page of a writable segment that
\* it does not share with a non-writable one; when they return 0 the pages
\* of the non-writable segments, shared or not, are writable after
\* unprotect and not writable after protect.
C15_OnlyReadOnlySegmentPagesChange ==
  prot_in.last \in {"phdr_table_protect_segments", "phdr_table_unprotect_segments"}
    => \A p \in DOMAIN pprot :
         /\ p \notin ReadOnlySegmentPages => pprot[p] = prot_in.before[p]
         /\ (prot_ret = 0 /\ p \in ReadOnlySegmentPages)
              => ("PROT_WRITE" \in pprot[p]
                    <=> prot_in.last = "phdr_table_unprotect_segments")

\* protect took the write permission from a page that a writable segment
\* shares, and left a page of a writable segment alone
C15_Witness ==
  /\ prot_in.last = "phdr_table_protect_segments" /\ prot_ret = 0
  /\ \E p \in WritableSegmentPages \cap ReadOnlySegmentPages :
       "PROT_WRITE" \in prot_in.before[p] /\ "PROT_WRITE" \notin pprot[p]

\* Page p has a byte of the range [load_bias + p_vaddr, + p_memsz) of a
\* PT_GNU_RELRO entry
InRelroRange(p) ==
  \E i \in 1..Len(prot_in.phdr_table) :
    /\ prot_in.phdr_table[i].p_type = "PT_GNU_RELRO"
    /\ LET lo == prot_in.load_bias + prot_in.phdr_table[i].p_vaddr
           hi == lo + prot_in.phdr_table[i].p_memsz
       IN p * PAGE_SIZE < hi /\ lo < (p + 1) * PAGE_SIZE

RelroFirstPage(phdr, load_bias) == (PAGE_START(phdr.p_vaddr) + load_bias) \div PAGE_SIZE

RelroPageCount(phdr) ==
  (PAGE_END(phdr.p_vaddr + phdr.p_memsz) - PAGE_START(phdr.p_vaddr)) \div PAGE_SIZE

\* The file was empty, the writing process serialized its relro pages to it
\* with success, and phdr_table_map_gnu_relro then returned 0
SerializedThenMapped ==
  /\ relro_in.called /\ relro_in.after_serialize /\ relro_ret = 0
  /\ relro_w.ret = 0 /\ relro_w.fd_before = <<>>

\* C11: after serialize into an empty file and map in a second process, a
\* relro page of the second process is mapped from the file exactly when its
\* contents were those of the same page of the writing process: all of them
\* when the contents are identical, none of the differing ones otherwise.
C11_SharedExactlyIdentical ==
  SerializedThenMapped =>
    \A i \in 1..Len(relro_in.phdr_table) :
      relro_in.phdr_table[i].p_type = "PT_GNU_RELRO" =>
        \A k \in 0..(RelroPageCount(relro_in.phdr_table[i]) - 1) :
          LET pr == RelroFirstPage(relro_in.phdr_table[i], relro_in.load_bias) + k
              pw == RelroFirstPage(relro_in.phdr_table[i], relro_w.load_bias) + k
          IN (mem[pr].backing = "file")
               <=> (relro_in.before[pr].data = relro_w.before[pw].data)

\* Two relro entries, a different bias, one page shared and one kept private
C11_Witness ==
  /\ SerializedThenMapped
  /\ Cardinality({i \in 1..Len(relro_in.phdr_table) :
                    relro_in.phdr_table[i].p_type = "PT_GNU_RELRO"}) = 2
  /\ relro_in.load_bias # relro_w.load_bias
  /\ \E p \in DOMAIN mem : mem[p].backing = "file"
  /\ \E p \in DOMAIN mem : mem[p].backing = "private"

---------------------------------------------------------------------------
\* What the claims about the filter speak of

\* The syscall numbers the build's filter compares nr with
Denylist(b64) == {NR(b64, DenyNames(b64)[i]) : i \in 1..Len(DenyNames(b64))}

\* A syscall was evaluated by the attached filter
Evaluated == seccomp # <<>> /\ verdict # "NONE"

ArchMatches == sd.arch = (IF lp64 THEN AUDIT_ARCH_AARCH64 ELSE AUDIT_ARCH_ARM)

\* The low-address threshold: 0x400000 on the 32-bit build; on the 64-bit
\* build a pointer is below it when its high word is 0 and its low word is
\* below 0x500000
BelowThreshold ==
  IF lp64
    THEN Hi32(sd.instruction_pointer) = W(0)
           /\ ~WGE(Lo32(sd.instruction_pointer), W(5242880))
    ELSE ~WGE(Lo32(sd.instruction_pointer), W(4194304))

\* begin <= IP < end as unsigned 64-bit numbers
InWindow ==
  /\ U64GE(sd.instruction_pointer, PRELINKER_ADDR(registry))
  /\ U64LT(sd.instruction_pointer, LINKER_MAPS_LAST_ADDR(registry))

\* The window is not inverted
WindowOrdered == U64GE(LINKER_MAPS_LAST_ADDR(registry), PRELINKER_ADDR(registry))

\* C1 as stated: with the token matching and the pointer outside the window,
\* every syscall number is allowed.
C1_OutsideAllowsAll ==
  (Evaluated /\ ArchMatches /\ ~InWindow) => verdict = "ALLOW"

\* C1 amended: with the token matching and the pointer outside the window and
\* at or above the low-address threshold, the filter returns TRAP for the
\* denylisted numbers and ALLOW for all the others, on both builds.
C1_OutsideRunsDenylist ==
  (Evaluated /\ ArchMatches /\ ~BelowThreshold /\ ~InWindow)
    => verdict = (IF sd.nr \in Denylist(lp64) THEN "TRAP" ELSE "ALLOW")

C1_Witness ==
  /\ Evaluated /\ ArchMatches /\ ~BelowThreshold /\ ~InWindow
  /\ sd.nr = NR(lp64, "execve")
  /\ sd.instruction_pointer[2] = <<48345, 1>>
  /\ LINKER_MAPS_LAST_ADDR(registry)[2] = <<48345, 0>>
  /\ verdict = "TRAP"

\* C2 as stated: with the token matching and the pointer inside the window
\* and at or above the threshold, a denylisted number is trapped.
C2_InsideTrapsDenylist ==
  (Evaluated /\ ArchMatches /\ InWindow /\ ~BelowThreshold
     /\ sd.nr \in Denylist(lp64))
    => verdict = "TRAP"

\* C2 amended: with the token matching and the pointer inside the window and
\* at or above the threshold, a denylisted number is allowed (the window is
\* the range of addresses the filter lets pass), except that the 64-bit
\* filter traps it when the pointer's high word is below the high word of
\* the window's end.
C2_InsideAllowsDenylist ==
  (Evaluated /\ ArchMatches /\ InWindow /\ ~BelowThreshold
     /\ sd.nr \in Denylist(lp64))
    => verdict =
         (IF lp64 /\ ~WGE(Hi32(sd.instruction_pointer),
                          Hi32(LINKER_MAPS_LAST_ADDR(registry)))
            THEN "TRAP" ELSE "ALLOW")

C2_Witness ==
  /\ Evaluated /\ ArchMatches /\ InWindow /\ ~BelowThreshold
  /\ sd.nr = NR(lp64, "openat")
  /\ sd.instruction_pointer[2] = <<48286, 10>>
  /\ verdict = "ALLOW"

\* C7 as stated: on the 64-bit build the filter's split comparison puts the
\* pointer inside the window exactly when begin <= IP < end.  (The filter
\* lets a denylisted number pass exactly when it found the pointer inside.)
C7_SplitCompareIsRangeTest ==
  (lp64 /\ Evaluated /\ ArchMatches /\ ~BelowThreshold /\ WindowOrdered
     /\ sd.nr \in Denylist(lp64))
    => (verdict = "ALLOW" <=> InWindow)

\* C8: a number that is not on the build's denylist is allowed whatever the
\* token and the pointer; the program passes the kernel's check (every jump
\* lands inside it, it ends in a RET) and every run ends in ALLOW or TRAP.
C8_OthersAllowed ==
  /\ bpf_check(filter(lp64, registry))
  /\ Evaluated => verdict \in {"ALLOW", "TRAP"}
  /\ (Evaluated /\ sd.nr \notin Denylist(lp64)) => verdict = "ALLOW"

C8_Witness ==
  /\ Evaluated /\ ArchMatches /\ ~BelowThreshold /\ ~InWindow
  /\ sd.nr = NR(lp64, IF lp64 THEN "mmap" ELSE "mmap2")
  /\ verdict = "ALLOW"

\* C9: a foreign architecture token, or a pointer below the low-address
\* threshold, is allowed for every syscall number and every window: both
\* guards come before the window check and the denylist.
C9_GuardsAllow ==
  (Evaluated /\ (~ArchMatches \/ BelowThreshold)) => verdict = "ALLOW"

C9_Witness ==
  /\ Evaluated /\ ArchMatches /\ BelowThreshold /\ ~InWindow
  /\ sd.nr = NR(lp64, "execve")
  /\ verdict = "ALLOW"

---------------------------------------------------------------------------
\* ElfReader::read: ReadSectionHeaders && ReadDynamicSection

\* Most section headers a sample file holds
MaxShdrs == 3

\* Size in bytes of the sample files
SampleFileSize == 2 * PAGE_SIZE

\* sizeof(ElfW(Shdr)) of the build
sizeof_Shdr == IF lp64 THEN 64 ELSE 40

Shdr(type, link, offset, size) ==
  [sh_type |-> type, sh_link |-> link, sh_offset |-> offset, sh_size |-> size]

\* Section headers of the samples: .dynamic sections linked to entry 1 of
\* the table or to an entry the table does not have, inside the file, across
\* its end or beyond it; string tables inside the file or across its end
Shdrs ==
  { Shdr("SHT_PROGBITS", 0, 512, 16),
    Shdr("SHT_DYNAMIC", 1, 1024, 64),
    Shdr("SHT_DYNAMIC", 1, 8160, 64),
    Shdr("SHT_DYNAMIC", 1, 12288, 64),
    Shdr("SHT_DYNAMIC", 7, 1024, 64),
    Shdr("SHT_STRTAB", 0, 2048, 100),
    Shdr("SHT_STRTAB", 0, 8000, 500) }

\* e_shoff of the samples: a table inside the file, one whose second entry
\* lies beyond the end of the file, one that lies beyond the end altogether
ShdrOffsets == {4096, SampleFileSize - sizeof_Shdr, SampleFileSize + 4096}

\* The files ElfReader::read is given: file_offset is where the image
\* starts in the file, shdrs what the file holds from e_shoff on
ReadImages ==
  [file_size : {SampleFileSize},
   file_offset : {0, 4096},
   e_shnum : 0..MaxShdrs,
   e_shoff : ShdrOffsets,
   shdrs : [1..MaxShdrs -> Shdrs]]

\* off64_t sums of the model never pass INT64_MAX
safe_add(a, b) == [ok |-> TRUE, out |-> a + b]

\* ElfReader::CheckFileRange, file_offset_ and file_size_ as parameters
CheckFileRange(file_offset, file_size, offset, size, alignment) ==
  LET range_start == safe_add(file_offset, offset)
      range_end == safe_add(range_start.out, size)
  IN /\ range_start.ok
     /\ range_end.ok
     /\ range_start.out < file_size
     /\ range_end.out <= file_size
     /\ offset % alignment = 0

\* A call of MappedFileFragment::Map(fd_, base_offset, elf_offset, size) on
\* a fragment of the reader, and what it returned
MapRequest(fragment, base_offset, elf_offset, size, ret) ==
  [call |-> "Map", fragment |-> fragment, base_offset |-> base_offset,
   elf_offset |-> elf_offset, size |-> size, ret |-> ret]

\* Entry i (from 0) of the mapped section header table can be read: it lies
\* inside the file.  The file ends on a page boundary, so an entry beyond
\* its end lies on a page the file does not back and reading it raises
\* SIGBUS.
ShdrReadable(img, i) ==
  img.file_offset + img.e_shoff + (i + 1) * sizeof_Shdr <= img.file_size

\* The loop of lines 311-316 from entry i on: the index of the first
\* SHT_DYNAMIC entry, shdr_num when there is none, -1 when the loop reads an
\* entry that cannot be read
RECURSIVE FindDynamicShdr(_, _, _)
FindDynamicShdr(img, shdr_num, i) ==
  IF i >= shdr_num THEN shdr_num
  ELSE IF ~ShdrReadable(img, i) THEN -1
  ELSE IF img.shdrs[i + 1].sh_type = "SHT_DYNAMIC" THEN i
  ELSE FindDynamicShdr(img, shdr_num, i + 1)

InitRead ==
  /\ lp64 \in BOOLEAN
  /\ registry = LoaderRegistry
  /\ seccomp = <<>>
  /\ sd = <<>>
  /\ verdict = "NONE"
  /\ image \in ReadImages
  /\ reader = [header_ |-> [e_shnum |-> image.e_shnum, e_shoff |-> image.e_shoff],
               file_offset_ |-> image.file_offset,
               shdr_table_ |-> FALSE, shdr_num_ |-> 0, dynamic_ |-> FALSE,
               strtab_ |-> FALSE, strtab_size_ |-> 0, result |-> "running"]
  /\ pc = "ReadSectionHeaders"
  /\ klog = <<>>
  /\ dl_err = <<>>
  /\ guest_writes = 0
  /\ loads = 0
  /\ mem = <<>>
  /\ relro_fd = <<>>
  /\ relro_in = <<>>
  /\ relro_ret = 0
  /\ relro_w = <<>>
  /\ pprot = <<>>
  /\ prot_in = <<>>
  /\ prot_ret = 0

\* read() returns false
ReadFalse(r) ==
  /\ reader' = [r EXCEPT !.result = "false"]
  /\ pc' = "done"

ReadSectionHeaders ==
  /\ pc = "ReadSectionHeaders"
  /\ LET shdr_num == reader.header_.e_shnum
         r == [reader EXCEPT !.shdr_num_ = shdr_num]
         size == shdr_num * sizeof_Shdr
     IN
     IF shdr_num = 0
       THEN /\ ReadFalse(r)
            /\ UNCHANGED <<klog, dl_err>>
     ELSE \E ret \in BOOLEAN :
       /\ klog' = Append(klog, MapRequest("shdr_fragment_", reader.file_offset_,
                                          reader.header_.e_shoff, size, ret))
       /\ IF ~ret
            THEN /\ ReadFalse(r)
                 /\ dl_err' = <<"shdr mmap failed">>
            ELSE /\ reader' = [r EXCEPT !.shdr_table_ = TRUE]
                 /\ pc' = "ReadDynamicSection"
                 /\ UNCHANGED dl_err
  /\ UNCHANGED <<filter_vars, image, guest_writes, loads, relro_vars, prot_vars>>

ReadDynamicSection ==
  /\ pc = "ReadDynamicSection"
  /\ LET d == FindDynamicShdr(image, reader.shdr_num_, 0) IN
     IF d = -1
       THEN /\ pc' = "SIGBUS"
            /\ UNCHANGED <<reader, klog, dl_err>>
     ELSE IF d = reader.shdr_num_
       THEN /\ ReadFalse(reader)
            /\ UNCHANGED <<klog, dl_err>>
     ELSE LET dynamic_shdr == image.shdrs[d + 1] IN
       IF dynamic_shdr.sh_link >= reader.shdr_num_
         THEN /\ ReadFalse(reader)
              /\ UNCHANGED <<klog, dl_err>>
       ELSE IF ~ShdrReadable(image, dynamic_shdr.sh_link)
         THEN /\ pc' = "SIGBUS"
              /\ UNCHANGED <<reader, klog, dl_err>>
       ELSE LET strtab_shdr == image.shdrs[dynamic_shdr.sh_link + 1] IN
         IF strtab_shdr.sh_type # "SHT_STRTAB"
           THEN /\ ReadFalse(reader)
                /\ UNCHANGED <<klog, dl_err>>
         ELSE \E dyn_ret \in BOOLEAN :
           LET dyn_map == MapRequest("dynamic_fragment_", reader.file_offset_,
                                     dynamic_shdr.sh_offset,
                                     dynamic_shdr.sh_size, dyn_ret)
           IN
           IF ~dyn_ret
             THEN /\ klog' = Append(klog, dyn_map)
                  /\ ReadFalse(reader)
                  /\ dl_err' = <<"dynamic section mmap failed">>
           ELSE \E str_ret \in BOOLEAN :
             LET str_map == MapRequest("strtab_fragment_", reader.file_offset_,
                                       strtab_shdr.sh_offset,
                                       strtab_shdr.sh_size, str_ret)
                 r == [reader EXCEPT !.dynamic_ = TRUE]
             IN
             /\ klog' = klog \o << dyn_map, str_map >>
             /\ IF ~str_ret
                  THEN /\ ReadFalse(r)
                       /\ dl_err' = <<"strtab section mmap failed">>
                  ELSE /\ reader' = [r EXCEPT !.strtab_ = TRUE,
                                              !.strtab_size_ = strtab_shdr.sh_size,
                                              !.result = "true"]
                       /\ pc' = "done"
                       /\ UNCHANGED dl_err
  /\ UNCHANGED <<filter_vars, image, guest_writes, loads, relro_vars, prot_vars>>

NextRead ==
  \/ ReadSectionHeaders
  \/ ReadDynamicSection

SpecRead == InitRead /\ [][NextRead]_vars

\* The requests to map a fragment of the file
MapRequests == {i \in 1..Len(klog) : klog[i].call = "Map"}

\* C20 as stated: the section header table, the dynamic section and its
\* string table are each checked against the size of the file before being
\* mapped: no mapping is requested of a fragment whose offset or offset+size
\* lies beyond the end of the file.
C20_FragmentsInsideFile ==
  \A i \in MapRequests :
    CheckFileRange(klog[i].base_offset, image.file_size, klog[i].elf_offset,
                   klog[i].size, 1)

---------------------------------------------------------------------------
\* What the claims about the loader speak of

\* The image of the current Load takes the fixed-slot path: its name contains
\* libc.so, its lowest page is page 0 and the caller's reservation does not
\* hold it
FixedSlotPath ==
  /\ pc # "idle"
  /\ image.name_libc
  /\ LET ls == phdr_table_get_load_size(image.table) IN
       /\ ls.size # 0
       /\ ls.min_vaddr = 0
       /\ ls.size > ReservedSize(image.extinfo)

\* ReserveAddressSpace of the current Load has returned true
ReserveReturnedTrue == pc \in {"LoadSegments", "FindPhdr"}

\* The calls of prctl(PR_SET_SECCOMP, ...) of the current Load
Installs == {i \in 1..Len(klog) : klog[i].call = "prctl"}

\* The calls LoadSegments made for the segments of the image
SegmentEvents == {i \in 1..Len(klog) : klog[i].seg > 0}

\* C3 as stated: when prctl(PR_SET_SECCOMP) fails the process is terminated:
\* ReserveAddressSpace does not return true, Load does not succeed, and no
\* segment of the image is mapped after the failed install.
C3_FailedInstallStopsLoad ==
  \A i \in Installs :
    klog[i].ret # 0
      => /\ ~ReserveReturnedTrue
         /\ reader.result # "true"
         /\ \A j \in SegmentEvents : j < i

\* C4 as stated: over any sequence of Load calls of one process the filter
\* is installed at most once and the guest-runtime fields of the registry
\* are written at most once.
C4_InstalledOnce == Len(seccomp) <= 1 /\ guest_writes <= 1

\* C5: on the fixed-slot path the install is made inside ReserveAddressSpace:
\* right after the reservation mmap succeeded, as the last call before
\* ReserveAddressSpace returns true, and before LoadSegments maps anything;
\* an image that does not take the fixed-slot path sees no install.
C5_InstallInsideReserve ==
  /\ \A i \in Installs :
       /\ i > 1
       /\ klog[i - 1].call = "mmap" /\ klog[i - 1].seg = 0
       /\ klog[i - 1].ret # MAP_FAILED
       /\ \A j \in SegmentEvents : i < j
  /\ (ReserveReturnedTrue /\ FixedSlotPath) => Installs # {}
  /\ (pc = "LoadSegments" /\ FixedSlotPath) => klog[Len(klog)].call = "prctl"
  /\ (pc # "idle" /\ ~FixedSlotPath) => Installs = {}

\* A fixed-slot load whose install succeeded and whose segments are mapped
C5_Witness ==
  /\ pc = "FindPhdr"
  /\ FixedSlotPath
  /\ \E i \in Installs : klog[i].ret = 0
  /\ SegmentEvents # {}

\* C6 as stated: after ReserveAddressSpace succeeded on the fixed-slot path
\* load_start_ is the guest-runtime address of the registry and the recorded
\* size is load_size_, whatever address the reservation mmap returned.
C6_PlacedAtRegistryAddress ==
  (ReserveReturnedTrue /\ FixedSlotPath)
    => /\ reader.load_start_ = FromU64(GUEST_LIBC_ADDR(registry))
       /\ reader.load_size_ = FromU64(GUEST_LIBC_SIZE(registry))

\* ReserveAddressSpace of the current Load got past its first check:
\* load_size_ is set and is not 0
ReserveRan == pc # "idle" /\ reader.load_size_ # 0

\* The anonymous mappings ReserveAddressSpace asked for
Reservations == {i \in 1..Len(klog) : klog[i].call = "mmap" /\ klog[i].seg = 0}

\* C12: when load_size_ exceeds reserved_size, a hint (or no extinfo) makes
\* one fresh PROT_NONE mapping of exactly load_size_ bytes, not MAP_FIXED,
\* whose start becomes load_start_; an explicit reservation makes the call
\* return false with no mapping and load_start_, load_bias_ unset; when
\* load_size_ fits, reserved_addr is used and no mapping is made.
C12_ReservationCases ==
  ReserveRan =>
    LET ls == phdr_table_get_load_size(reader.phdr_table_)
        ext == image.extinfo
        explicit == ~ext.null /\ "ANDROID_DLEXT_RESERVED_ADDRESS" \in ext.flags
    IN
    /\ reader.load_size_ = ls.size
    /\ (ls.size > ReservedSize(ext) /\ ~explicit) =>
         /\ Cardinality(Reservations) = 1
         /\ \A i \in Reservations :
              /\ klog[i].len = ls.size /\ klog[i].prot = {} /\ ~klog[i].fixed
              /\ IF klog[i].ret = MAP_FAILED
                   THEN pc = "done" /\ reader.result = "false"
                   ELSE /\ reader.load_start_ = klog[i].ret
                        /\ reader.load_bias_ = klog[i].ret - ls.min_vaddr
    /\ (ls.size > ReservedSize(ext) /\ explicit) =>
         /\ Reservations = {}
         /\ pc = "done" /\ reader.result = "false"
         /\ reader.load_start_ = 0 /\ reader.load_bias_ = 0
    /\ ls.size <= ReservedSize(ext) =>
         /\ Reservations = {}
         /\ reader.load_start_ = ext.reserved_addr
         /\ reader.load_bias_ = ext.reserved_addr - ls.min_vaddr
         /\ (ReserveReturnedTrue \/ pc = "done")

\* An explicit reservation that is too small was rejected
C12_Witness ==
  /\ ReserveRan
  /\ "ANDROID_DLEXT_RESERVED_ADDRESS" \in image.extinfo.flags
  /\ reader.load_size_ > ReservedSize(image.extinfo)
  /\ pc = "done"
  /\ Reservations = {}

\* C13 as stated: when an explicit reservation is too small, the number the
\* error reports is the shortfall load_size_ - reserved_size, a positive
\* count of bytes.
C13_ShortfallReported ==
  (Len(dl_err) > 0
     /\ dl_err[1] = "reserved address space smaller than bytes needed")
    => /\ dl_err[2] = reader.load_size_ - ReservedSize(image.extinfo)
       /\ dl_err[2] > 0

\* The addresses of [lo, hi) where the call that decides a byte can change:
\* between two of them every byte has the same origin
Breakpoints(lo, hi) ==
  {lo} \cup {x \in {klog[k].addr : k \in SegmentEvents}
                     \cup {EvEnd(klog[k]) : k \in SegmentEvents} : lo < x /\ x < hi}

\* Every byte of [lo, hi) is zero
ZeroThroughout(lo, hi) ==
  \A a \in Breakpoints(lo, hi) : ByteAt(klog, reader.phdr_table_, a) = 0

\* The writable PT_LOAD entries with p_filesz < p_memsz whose file content
\* does not end on a page boundary
BssSegments ==
  {i \in 1..Len(reader.phdr_table_) :
     LET phdr == reader.phdr_table_[i] IN
     /\ phdr.p_type = "PT_LOAD" /\ "PF_W" \in phdr.p_flags
     /\ phdr.p_filesz < phdr.p_memsz
     /\ PAGE_OFFSET(phdr.p_vaddr + reader.load_bias_ + phdr.p_filesz) > 0}

\* C14 as stated: after LoadSegments has processed the whole table, for each
\* such segment every byte from the end of its file content to the next page
\* boundary, and from there to the page end of its memory size, is zero.
C14_TailIsZero ==
  pc = "FindPhdr" =>
    \A i \in BssSegments :
      LET phdr == reader.phdr_table_[i]
          seg_start == phdr.p_vaddr + reader.load_bias_
      IN ZeroThroughout(seg_start + phdr.p_filesz,
                        PAGE_END(seg_start + phdr.p_memsz))

\* FindPhdr of the current Load returned
FindPhdrReturned ==
  /\ pc = "done"
  /\ \/ reader.result = "true"
     \/ /\ Len(dl_err) > 0
        /\ dl_err[1] \in {"can't find loaded phdr",
                          "loaded phdr not in loadable segment"}

\* The table of phdr_num_ entries at address c lies in the file-backed
\* extent [bias + vaddr, bias + vaddr + p_filesz] of one PT_LOAD entry.
\* Every segment of the model lies below 2^31, where no sum wraps; an
\* address from 2^31 on (a negative number) lies in none.
InsideOneSegment(c) ==
  /\ c >= 0
  /\ \E i \in 1..Len(reader.phdr_table_) :
       /\ reader.phdr_table_[i].p_type = "PT_LOAD"
       /\ reader.phdr_table_[i].p_vaddr + reader.load_bias_ <= c
       /\ c + reader.phdr_num_ * sizeof_Phdr
            <= reader.phdr_table_[i].p_vaddr + reader.load_bias_
                 + reader.phdr_table_[i].p_filesz

\* C17 as stated: FindPhdr succeeds and records loaded_phdr_ only for a
\* candidate that lies, with the whole table, inside the file-backed extent
\* of one PT_LOAD entry; for any other candidate, one whose end wraps
\* included, it returns false and loaded_phdr_ stays null.
C17_PhdrInsideSegment ==
  FindPhdrReturned =>
    IF reader.result = "true"
      THEN InsideOneSegment(reader.loaded_phdr_)
      ELSE reader.loaded_phdr_ = 0

\* The candidate address FindPhdr examined, as a one-element sequence:
\* loaded_phdr_ when it returned true, the address of its message when
\* CheckPhdr refused it, <<>> when it found none
ExaminedCandidate ==
  IF reader.result = "true" THEN << reader.loaded_phdr_ >>
  ELSE IF dl_err[1] = "loaded phdr not in loadable segment" THEN << dl_err[2] >>
  ELSE <<>>

\* Indices of the entries of a type in the table of the current Load
EntriesOfType(type) ==
  {i \in 1..Len(reader.phdr_table_) : reader.phdr_table_[i].p_type = type}

ZeroOffsetLoads ==
  {i \in EntriesOfType("PT_LOAD") : reader.phdr_table_[i].p_offset = 0}

\* bias + p_vaddr of entry i
RealBase(i) == AddrAdd(reader.load_bias_, reader.phdr_table_[i].p_vaddr)

\* C18 as stated: with a PT_PHDR entry the candidate is bias + its p_vaddr;
\* with none, the candidate is the real base of the first PT_LOAD entry with
\* file offset zero, wherever it stands among the PT_LOAD entries, plus
\* e_phoff.
C18_FirstZeroOffsetLoad ==
  FindPhdrReturned =>
    IF EntriesOfType("PT_PHDR") # {}
      THEN ExaminedCandidate = << RealBase(SetMin(EntriesOfType("PT_PHDR"))) >>
    ELSE ZeroOffsetLoads # {} =>
      ExaminedCandidate =
        << AddrAdd(RealBase(SetMin(ZeroOffsetLoads)), reader.header_.e_phoff) >>

\* C18 amended: with a PT_PHDR entry the candidate is bias + its p_vaddr;
\* with none, only the first PT_LOAD entry of the table is looked at: when
\* its file offset is zero the candidate is its real base plus e_phoff, and
\* when it is not, FindPhdr fails with "can't find loaded phdr" even if a
\* later PT_LOAD entry has file offset zero.
C18_FirstLoadOnly ==
  FindPhdrReturned =>
    IF EntriesOfType("PT_PHDR") # {}
      THEN ExaminedCandidate = << RealBase(SetMin(EntriesOfType("PT_PHDR"))) >>
    ELSE IF SetMin(EntriesOfType("PT_LOAD")) \in ZeroOffsetLoads
      THEN ExaminedCandidate =
             << AddrAdd(RealBase(SetMin(EntriesOfType("PT_LOAD"))),
                        reader.header_.e_phoff) >>
    ELSE /\ reader.result = "false"
         /\ dl_err[1] = "can't find loaded phdr"

\* FindPhdr returned for a table without PT_PHDR whose PT_LOAD with file
\* offset zero is not the first PT_LOAD
C18_Witness ==
  /\ FindPhdrReturned
  /\ EntriesOfType("PT_PHDR") = {}
  /\ ZeroOffsetLoads # {}
  /\ SetMin(EntriesOfType("PT_LOAD")) \notin ZeroOffsetLoads
  /\ reader.result = "false"

\* ReserveAddressSpace of the current Load returned true, and the stages
\* after it have not failed before FindPhdr
ReservedExtent ==
  \/ ReserveReturnedTrue
  \/ FindPhdrReturned

\* C19: for a table with a PT_LOAD entry, min_vaddr and max_vaddr are page
\* aligned, load_size_ is their difference, every PT_LOAD range
\* [vaddr, vaddr + memsz) lies within [min_vaddr, max_vaddr), and with
\* load_bias_ = load_start_ - min_vaddr every real range lies within
\* [load_start_, load_start_ + load_size_); for a table with no PT_LOAD
\* entry the size is 0 and ReserveAddressSpace fails.
C19_LoadExtent ==
  LET min_vaddr == reader.load_start_ - reader.load_bias_
      max_vaddr == min_vaddr + reader.load_size_
  IN
  /\ ReservedExtent =>
       /\ EntriesOfType("PT_LOAD") # {}
       /\ min_vaddr % PAGE_SIZE = 0
       /\ max_vaddr % PAGE_SIZE = 0
       /\ reader.load_size_ > 0
       /\ \A i \in EntriesOfType("PT_LOAD") :
            LET phdr == reader.phdr_table_[i] IN
            /\ min_vaddr <= phdr.p_vaddr
            /\ phdr.p_vaddr + phdr.p_memsz <= max_vaddr
            /\ reader.load_start_ <= reader.load_bias_ + phdr.p_vaddr
            /\ reader.load_bias_ + phdr.p_vaddr + phdr.p_memsz
                 <= reader.load_start_ + reader.load_size_
  /\ (pc \in {"LoadSegments", "FindPhdr", "done"}
        /\ Len(reader.phdr_table_) > 0 /\ EntriesOfType("PT_LOAD") = {}) =>
       /\ reader.load_size_ = 0
       /\ reader.result = "false"
       /\ dl_err[1] = "has no loadable segments"

\* ReserveAddressSpace returned true for a table of several PT_LOAD entries,
\* the highest of which ends inside a page
C19_Witness ==
  /\ ReserveReturnedTrue
  /\ Cardinality(EntriesOfType("PT_LOAD")) > 1
  /\ \E i \in EntriesOfType("PT_LOAD") :
       /\ (reader.phdr_table_[i].p_vaddr + reader.phdr_table_[i].p_memsz)
            % PAGE_SIZE # 0
       /\ PAGE_END(reader.load_bias_ + reader.phdr_table_[i].p_vaddr
                     + reader.phdr_table_[i].p_memsz)
            = reader.load_start_ + reader.load_size_

\* The header passes the six identity checks
IdentityOk(h) ==
  /\ h.magic = "ELFMAG"
  /\ h.ei_class = (IF lp64 THEN "ELFCLASS64" ELSE "ELFCLASS32")
  /\ h.ei_data = "ELFDATA2LSB"
  /\ h.e_type = "ET_DYN"
  /\ h.e_version = "EV_CURRENT"
  /\ h.e_machine = "ELF_TARG_MACH"

\* e_phnum is within 1 .. 65536 / sizeof(Phdr)
PhnumOk(h) == h.e_phnum >= 1 /\ h.e_phnum * sizeof_Phdr <= 65536

\* The stages of Load in their order
StageOrder ==
  << "ReadElfHeader", "VerifyElfHeader", "ReadProgramHeader",
     "ReserveAddressSpace", "LoadSegments", "FindPhdr" >>

\* The current Load has come to stage n or further without a failure
CameTo(n) ==
  \/ \E m \in n..Len(StageOrder) : pc = StageOrder[m]
  \/ pc = "done" /\ reader.result = "true"

\* C21: Load runs read header, validate, read program headers, reserve, map
\* segments, locate in this order and stops at the first stage that fails:
\* an image that fails one of the six identity checks or has e_phnum < 1 or
\* e_phnum > 65536 / sizeof(Phdr) never comes to the reservation: no address
\* space is reserved, no segment is mapped, no filter is installed for it.
C21_StagesInOrder ==
  pc # "idle" =>
    /\ CameTo(2) => image.pread = "full" /\ reader.header_ = image.header
    /\ CameTo(3) => IdentityOk(image.header)
    /\ CameTo(4) => PhnumOk(image.header) /\ reader.phdr_table_ = image.table
    /\ CameTo(5) => reader.load_size_ > 0
    /\ SegmentEvents # {} => reader.load_size_ > 0 /\ reader.load_start_ # 0
    /\ (image.pread # "full" \/ ~IdentityOk(image.header) \/ ~PhnumOk(image.header)) =>
         /\ ~CameTo(4)
         /\ Reservations = {} /\ SegmentEvents = {} /\ Installs = {}
         /\ reader.load_start_ = 0 /\ reader.load_size_ = 0
         /\ pc = "done" => reader.result = "false"

\* Load returned for an image that fails an identity check or the e_phnum
\* test
C21_Witness ==
  /\ pc = "done"
  /\ image.pread = "full"
  /\ ~IdentityOk(image.header) \/ ~PhnumOk(image.header)
  /\ reader.result = "false"

\* C22 as stated: when the filter is installed, the end of its window,
\* LINKER_MAPS_LAST_ADDR, is at or above the page-aligned end of the guest
\* libc reservation, GUEST_LIBC_ADDR + load_size_.
C22_WindowCoversGuestLibc ==
  Installs # {} =>
    FromU64(LINKER_MAPS_LAST_ADDR(registry))
      >= PAGE_ALIGN(FromU64(GUEST_LIBC_ADDR(registry)) + reader.load_size_)

\* The MAP_FIXED mappings and the zero-fill writes LoadSegments performed
SegmentChanges ==
  {i \in SegmentEvents : klog[i].ret # MAP_FAILED /\ klog[i].fixed}

\* Every page LoadSegments replaced and every byte it wrote lies inside
\* [load_start_, load_start_ + load_size_)
InsideReservation ==
  \A i \in SegmentChanges :
    /\ reader.load_start_ <= klog[i].addr
    /\ EvEnd(klog[i]) <= reader.load_start_ + reader.load_size_

\* PAGE_OFFSET(p_vaddr) == PAGE_OFFSET(p_offset) for every PT_LOAD entry
OffsetsCongruent ==
  \A i \in EntriesOfType("PT_LOAD") :
    PAGE_OFFSET(reader.phdr_table_[i].p_vaddr)
      = PAGE_OFFSET(reader.phdr_table_[i].p_offset)

\* The tables of the model keep the invariants of the data model: PT_LOAD
\* ranges do not overlap and p_filesz <= p_memsz
DataModelInvariants ==
  /\ \A i \in EntriesOfType("PT_LOAD") :
       reader.phdr_table_[i].p_filesz <= reader.phdr_table_[i].p_memsz
  /\ \A i, j \in EntriesOfType("PT_LOAD") :
       i # j =>
         \/ reader.phdr_table_[i].p_vaddr + reader.phdr_table_[i].p_memsz
              <= reader.phdr_table_[j].p_vaddr
         \/ reader.phdr_table_[j].p_vaddr + reader.phdr_table_[j].p_memsz
              <= reader.phdr_table_[i].p_vaddr

\* C23 as stated: for a table that keeps the invariants of the data model,
\* every MAP_FIXED mapping and every zero-fill write of LoadSegments lies
\* inside the range ReserveAddressSpace recorded.
C23_InsideReservation ==
  (pc # "idle" /\ DataModelInvariants) => InsideReservation

\* C23 amended: for a table that keeps the invariants of the data model and
\* whose PT_LOAD entries have PAGE_OFFSET(p_vaddr) = PAGE_OFFSET(p_offset),
\* every MAP_FIXED mapping and every zero-fill write of LoadSegments lies
\* inside the range ReserveAddressSpace recorded.
C23_CongruentInsideReservation ==
  (pc # "idle" /\ DataModelInvariants /\ OffsetsCongruent) => InsideReservation

\* LoadSegments returned true for a table of several congruent PT_LOAD
\* entries, having mapped file pages, zeroed a tail and mapped anonymous
\* pages up to the end of the reservation
C23_Witness ==
  /\ pc = "FindPhdr"
  /\ DataModelInvariants /\ OffsetsCongruent
  /\ Cardinality(EntriesOfType("PT_LOAD")) > 1
  /\ \A c \in {"mmap64", "memset", "mmap"} :
       \E i \in SegmentChanges : klog[i].call = c
  /\ \E i \in SegmentChanges :
       EvEnd(klog[i]) = reader.load_start_ + reader.load_size_

===========================================================================
